---- MODULE Spec2Model ----
(***************************************************************************)
(* A state-machine model of gitforge's repository core                     *)
(* (src/gitforge/repository.py, objects.py, diff_engine.py, remotes.py):   *)
(* the reference store, the index, the working tree, the commit graph and  *)
(* the commands commit, checkout, reset, merge, cherry-pick and rebase     *)
(* with their in-progress markers.                                         *)
(*                                                                         *)
(* Object ids are small integers; 0 stands for Python's None (an absent    *)
(* ref, an absent path, "no merge base").  A tree object is modelled by    *)
(* the flat mapping path -> blob id that get_tree returns for it.          *)
(***************************************************************************)
EXTENDS Integers, Sequences, FiniteSets, TLC

\* ------------------------------------------------------------------ bounds
\* Commit objects the store may hold (the commands that would exceed it are disabled).
MaxCommits == 3
\* Distinct file contents (blob ids 1..MaxBlob).
MaxBlob == 2
\* Commits of the arbitrary commit graphs of SpecGraph.
MaxNodes == 4
\* Distinct file contents in the three commits of SpecDiverged.
MaxTreeBlob == 3
\* Commit objects in the store of SpecRebase (four at the start, then the replayed).
MaxRebaseCommits == 5

Paths == {"f"}
Blobs == 1..MaxBlob
BranchNames == {"master"}

\* ------------------------------------------------------------------ state
VARIABLES
    refs,       \* the ref files under .gitforge: name -> RefValue
    index,      \* .gitforge/index: path -> entry
    working,    \* the working tree: path -> blob id of the file's content (0: no file)
    commits,    \* the commit objects, by id: <<[tree, parents]>>
    trees,      \* the tree objects written to the store
    REBASE_STATE, \* .gitforge/REBASE_STATE
    start,      \* history: what HEAD was when the operation in progress started
    query,      \* a call of a pure function and its result (SpecGraph)
    objects,    \* the files under .gitforge/objects, by oid (SpecStore)
    proc,       \* the command that runs step by step: its position and locals
    remote,     \* the other repository of push and fetch: its refs and objects
    files       \* the files of the repository as two concurrent processes see them

vars == <<refs, index, working, commits, trees, REBASE_STATE, start, query, objects, proc, remote, files>>

\* ------------------------------------------------------------ reference store
\* objects.RefValue; a missing ref file reads as RefValue(symbolic=False, value=None).
RefValue(symbolic, name, oid) == [symbolic |-> symbolic, name |-> name, oid |-> oid]
NoRef == RefValue(FALSE, "", 0)
Direct(oid) == RefValue(FALSE, "", oid)
Symbolic(name) == RefValue(TRUE, name, 0)

RefNames ==
    {"HEAD", "MERGE_HEAD", "ORIG_HEAD", "CHERRY_PICK_HEAD", "refs/remote/master"}
        \cup {"refs/heads/" \o b : b \in BranchNames}

\* A ref file that does not exist (also any name outside the modelled files).
ReadRef(r, ref) == IF ref \in DOMAIN r THEN r[ref] ELSE NoRef

\* objects._get_ref_internal: the name the lookup ends at and the value there.
RECURSIVE get_ref_internal(_, _, _)
get_ref_internal(r, ref, deref) ==
    LET value == ReadRef(r, ref) IN
    IF value.symbolic /\ deref
        THEN get_ref_internal(r, value.name, TRUE)
        ELSE [ref |-> ref, value |-> value]

get_ref(r, ref, deref) == get_ref_internal(r, ref, deref).value

\* An update that always writes the named file itself.
update_ref_no_deref(r, ref, value, deref) == [r EXCEPT ![ref] = value]

\* objects.update_ref: written through a symbolic ref when deref.
update_ref(r, ref, value, deref) ==
    [r EXCEPT ![get_ref_internal(r, ref, deref).ref] = value]

\* objects.delete_ref
delete_ref(r, ref, deref) ==
    [r EXCEPT ![get_ref_internal(r, ref, deref).ref] = NoRef]

\* ------------------------------------------------------------------ index
Entry(state, oid, type, base, head, other) ==
    [state |-> state, oid |-> oid, type |-> type,
     base |-> base, head |-> head, other |-> other]
NoEntry == Entry("absent", 0, "", 0, 0, 0)
Clear(oid) == Entry("clear", oid, "", 0, 0, 0)

EmptyIndex == [p \in Paths |-> NoEntry]
EmptyTree == [p \in Paths |-> 0]

\* objects.has_conflicts
has_conflicts(idx) == \E p \in Paths : idx[p].state = "conflict"

\* objects.get_conflicted_files
get_conflicted_files(idx) == {p \in Paths : idx[p].state = "conflict"}

\* repository.get_index_tree: the clean entries only.
get_index_tree(idx) ==
    [p \in Paths |-> IF idx[p].state = "clear" THEN idx[p].oid ELSE 0]

\* repository.write_tree: every entry that has an oid goes into the tree.
write_tree(idx) ==
    [p \in Paths |-> IF idx[p].state # "absent" /\ idx[p].oid # 0 THEN idx[p].oid ELSE 0]

\* ------------------------------------------------------------ commit graph
\* repository.Author, as get_commit returns it.
Author(name, email, timestamp, timezone) ==
    [name |-> name, email |-> email, timestamp |-> timestamp, timezone |-> timezone]

\* The author get_commit gives a commit whose author line does not parse.
UnknownAuthor == Author("Unknown", "unknown", 0, "+0000")

\* The author arguments of repository.commit when none is given.
NoAuthor == Author("", "", 0, "")

\* The line "name <email> timestamp timezone" that repository.commit writes, as
\* _parse_author_line and get_commit read it back: the pattern wants at least one
\* character of name and one of email, and a line that does not match reads as
\* the unknown author.
parse_author_line(name, email, timestamp, timezone) ==
    IF name # "" /\ email # "" THEN Author(name, email, timestamp, timezone)
    ELSE UnknownAuthor

\* objects.get_user_identity: the identity of the user of this repository, and
\* the identity of somebody else whose commits it may hold.
Identity(name, email) == [name |-> name, email |-> email]
Me == Identity("me", "me@example.com")
Them == Identity("them", "them@example.com")
get_user_identity == Me

\* objects.format_timestamp.  The clock is read when a commit is made and it has
\* moved since the commit before: its value is the number of commits made so far.
Date(timestamp, timezone) == [timestamp |-> timestamp, timezone |-> timezone]
format_timestamp(cs) == Date(Len(cs) + 1, "+0000")

\* The messages of the commit command.
Messages == {"m"}

\* repository.Commit, as get_commit returns it.
Commit(tree, parents, author, committer, message) ==
    [tree |-> tree, parents |-> parents, author |-> author, committer |-> committer,
     message |-> message]

\* The commit that repository.commit writes for an identity at a date when it is
\* given no author: author and committer are the same.
PlainCommit(tree, parents, identity, date, message) ==
    LET a == parse_author_line(identity.name, identity.email, date.timestamp, date.timezone)
    IN Commit(tree, parents, a, a, message)

\* The parents not yet visited are marked and queued, one after the other.
RECURSIVE push_parents(_, _, _)
push_parents(parents, visited, frontier) ==
    IF parents = <<>> THEN [visited |-> visited, frontier |-> frontier]
    ELSE IF Head(parents) \in visited
        THEN push_parents(Tail(parents), visited, frontier)
        ELSE push_parents(Tail(parents), visited \cup {Head(parents)},
                          Append(frontier, Head(parents)))

\* The while loop of repository.get_merge_base.
RECURSIVE merge_base_loop(_, _, _, _, _)
merge_base_loop(cs, visited1, visited2, frontier1, frontier2) ==
    IF frontier1 = <<>> /\ frontier2 = <<>> THEN 0
    ELSE IF frontier1 # <<>> /\ Head(frontier1) \in visited2 THEN Head(frontier1)
    ELSE
        LET e1 == IF frontier1 = <<>>
                    THEN [visited |-> visited1, frontier |-> frontier1]
                    ELSE push_parents(cs[Head(frontier1)].parents, visited1, Tail(frontier1))
        IN
        IF frontier2 # <<>> /\ Head(frontier2) \in e1.visited THEN Head(frontier2)
        ELSE
            LET e2 == IF frontier2 = <<>>
                        THEN [visited |-> visited2, frontier |-> frontier2]
                        ELSE push_parents(cs[Head(frontier2)].parents, visited2, Tail(frontier2))
            IN merge_base_loop(cs, e1.visited, e2.visited, e1.frontier, e2.frontier)

\* A search that walks from the second commit only: it finds the first commit
\* when that is an ancestor of the second, and nothing otherwise.
get_merge_base_one_sided(cs, oid1, oid2) ==
    IF oid1 = oid2 THEN oid1
    ELSE merge_base_loop(cs, {oid1}, {oid2}, <<>>, <<oid2>>)

\* repository.get_merge_base (0: None)
get_merge_base(cs, oid1, oid2) ==
    IF oid1 = oid2 THEN oid1
    ELSE merge_base_loop(cs, {oid1}, {oid2}, <<oid1>>, <<oid2>>)

\* commit.parents[:1] and commit.parents[1:]
FirstParent(parents) == IF parents = <<>> THEN <<>> ELSE <<Head(parents)>>
OtherParents(parents) == IF parents = <<>> THEN <<>> ELSE Tail(parents)

\* repository.iter_commits_and_parents: the ids in the order they are yielded.
RECURSIVE iter_commits_and_parents(_, _, _)
iter_commits_and_parents(cs, oids, visited) ==
    IF oids = <<>> THEN <<>>
    ELSE
        LET oid == Head(oids) IN
        IF oid = 0 \/ oid \in visited
            THEN iter_commits_and_parents(cs, Tail(oids), visited)
            ELSE <<oid>> \o iter_commits_and_parents(
                    cs,
                    FirstParent(cs[oid].parents) \o Tail(oids)
                        \o OtherParents(cs[oid].parents),
                    visited \cup {oid})

Range(seq) == {seq[i] : i \in DOMAIN seq}

\* repository.is_ancestor_of
is_ancestor_of(cs, commit, maybe_ancestor) ==
    maybe_ancestor \in Range(iter_commits_and_parents(cs, <<commit>>, {}))

\* ------------------------------------------------- three-way merge of trees
\* What the external diff3 returns for one path: (output, has_conflict).
Diff3Outcomes == [has_conflict : BOOLEAN, content : Blobs]

\* The conflict type diff_engine.merge_trees determines for a path none of its
\* non-conflict cases has taken.
conflict_type(o_base, o_HEAD, o_other) ==
    IF o_base = 0 /\ o_HEAD # 0 /\ o_other # 0 THEN "add_add"
    ELSE IF o_base # 0 /\ o_HEAD = 0 /\ o_other # 0 THEN "current_delete_target_modify"
    ELSE IF o_base # 0 /\ o_HEAD # 0 /\ o_other = 0 THEN "current_modify_target_delete"
    ELSE "content_conflict"

\* A merge that stores HEAD's blob, not the merged one, in a conflicted entry.
merged_entry_head_oid(o_base, o_HEAD, o_other, d) ==
    IF d.has_conflict
        THEN Entry("conflict", o_HEAD, conflict_type(o_base, o_HEAD, o_other),
                   o_base, o_HEAD, o_other)
        ELSE Clear(d.content)

\* The unified merge of diff_engine.merge_trees: the entry stored from what
\* merge_blobs returns.
merged_entry(o_base, o_HEAD, o_other, d) ==
    IF d.has_conflict
        THEN Entry("conflict", d.content, conflict_type(o_base, o_HEAD, o_other),
                   o_base, o_HEAD, o_other)
        ELSE Clear(d.content)

\* A two-way merge: other's file wins wherever other has one.
merge_entry_other_wins(o_base, o_HEAD, o_other, d) ==
    IF o_other # 0 THEN Clear(o_other)
    ELSE IF o_HEAD # 0 THEN Clear(o_HEAD)
    ELSE NoEntry

\* diff_engine.merge_trees, one path: the entry it stores (NoEntry: the path is dropped).
\* d is what merge_blobs returns for the three sides.
merge_entry(o_base, o_HEAD, o_other, d) ==
    IF o_HEAD = 0 /\ o_other = 0 THEN NoEntry
    ELSE IF o_base = 0 /\ ((o_HEAD = 0) # (o_other = 0))
        THEN Clear(IF o_HEAD # 0 THEN o_HEAD ELSE o_other)
    ELSE IF o_base # 0 /\ o_HEAD = 0 /\ o_other = o_base THEN NoEntry
    ELSE IF o_base # 0 /\ o_other = 0 /\ o_HEAD = o_base THEN NoEntry
    ELSE IF o_base # 0 /\ o_HEAD # 0 /\ o_other # 0 /\ o_HEAD = o_base /\ o_other # o_base
        THEN Clear(o_other)
    ELSE IF o_base # 0 /\ o_HEAD # 0 /\ o_other # 0 /\ o_other = o_base /\ o_HEAD # o_base
        THEN Clear(o_HEAD)
    ELSE IF o_base # 0 /\ o_HEAD # 0 /\ o_other # 0 /\ o_HEAD = o_other
        THEN Clear(o_HEAD)
    ELSE IF o_base = 0 /\ o_HEAD # 0 /\ o_other # 0 /\ o_HEAD = o_other
        THEN Clear(o_HEAD)
    ELSE merged_entry(o_base, o_HEAD, o_other, d)

\* diff_engine.merge_trees: the merged index (its conflicts are its conflicted paths).
\* d3[p] is what diff3 returns for path p.
merge_trees(t_base, t_HEAD, t_other, d3) ==
    [p \in Paths |-> merge_entry(t_base[p], t_HEAD[p], t_other[p], d3[p])]

\* ------------------------------------------------ index and working tree
\* The state a command reads and writes.
State(r, idx, w, cs, ts, rb) ==
    [refs |-> r, index |-> idx, working |-> w, commits |-> cs, trees |-> ts, rebase |-> rb]

\* A checkout that writes the clean entries only.
checkout_index_clean_only(idx) ==
    [p \in Paths |-> IF idx[p].state = "clear" THEN idx[p].oid ELSE 0]

\* repository._checkout_index: the directory is emptied, then every entry with an
\* oid is written.
checkout_index(idx) ==
    [p \in Paths |-> IF idx[p].state # "absent" /\ idx[p].oid # 0 THEN idx[p].oid ELSE 0]

\* repository.read_tree
read_tree(s, tree, update_working) ==
    LET idx == [p \in Paths |-> IF tree[p] # 0 THEN Clear(tree[p]) ELSE NoEntry] IN
    [s EXCEPT !.index = idx,
              !.working = IF update_working THEN checkout_index(idx) ELSE s.working]

\* repository.read_tree_merged
read_tree_merged(s, t_base, t_HEAD, t_other, update_working, d3) ==
    LET idx == merge_trees(t_base, t_HEAD, t_other, d3) IN
    [s EXCEPT !.index = idx,
              !.working = IF update_working THEN checkout_index(idx) ELSE s.working]

\* The tree of a commit (get_commit (oid).tree read by get_tree).
TreeOf(cs, oid) == cs[oid].tree

HeadOid(r) == get_ref(r, "HEAD", TRUE).oid

Res(s, res) == [s |-> s, res |-> res, oid |-> 0]
ResOid(s, res, oid) == [s |-> s, res |-> res, oid |-> oid]

\* ------------------------------------------------------------- name lookup
\* A name given on the command line: a ref name, or a 40-digit hex literal (hex # 0).
Name(ref, hex) == [ref |-> ref, hex |-> hex]
BranchName(b) == Name(b, 0)
Hex(oid) == Name("", oid)

\* A ref file holds something (an oid or "ref: <name>").
HasValue(value) == value.symbolic \/ value.oid # 0

\* repository.get_oid (0: no oid, the lookup fails or yields None)
get_oid(r, name) ==
    LET n == IF name.ref = "@" THEN "HEAD" ELSE name.ref
        refs_to_try == <<n, "refs/" \o n, "refs/tags/" \o n, "refs/heads/" \o n>>
        found == {i \in 1..4 : HasValue(get_ref(r, refs_to_try[i], FALSE))}
    IN
    IF name.hex = 0 /\ found # {}
        THEN get_ref(r, refs_to_try[CHOOSE i \in found : \A j \in found : i <= j], TRUE).oid
        ELSE name.hex

\* repository.is_branch
is_branch(r, name) ==
    name.hex = 0 /\ get_ref(r, "refs/heads/" \o name.ref, TRUE).oid # 0

\* ------------------------------------------------------------------ commit
\* A commit that writes the merged-in parent first.
commit_parents_merge_first(HEAD, MERGE_HEAD) ==
    (IF MERGE_HEAD # 0 THEN <<MERGE_HEAD>> ELSE <<>>) \o (IF HEAD # 0 THEN <<HEAD>> ELSE <<>>)

\* The parent lines of repository.commit, in the order they are written.
commit_parents(HEAD, MERGE_HEAD) ==
    (IF HEAD # 0 THEN <<HEAD>> ELSE <<>>) \o (IF MERGE_HEAD # 0 THEN <<MERGE_HEAD>> ELSE <<>>)

\* The refs repository.commit deletes before it writes the commit object.
commit_cleanup(r, allow_merge_parent) ==
    LET r1 == IF allow_merge_parent /\ get_ref(r, "MERGE_HEAD", TRUE).oid # 0
                THEN delete_ref(r, "MERGE_HEAD", FALSE) ELSE r
    IN IF allow_merge_parent /\ get_ref(r1, "ORIG_HEAD", TRUE).oid # 0
        THEN delete_ref(r1, "ORIG_HEAD", FALSE) ELSE r1

\* A commit that has no conflict check.
commit_never_refused(idx) == FALSE

\* The conflict check that opens repository.commit.
commit_refused(idx) == has_conflicts(idx)

\* repository.commit.  The commit text carries the time it is made, so every
\* commit gets an id of its own: the next one.
commit(s, message, author, allow_merge_parent) ==
    IF commit_refused(s.index) THEN Res(s, "conflict")
    ELSE
        LET default == get_user_identity
            now == format_timestamp(s.commits)
            author_name == IF author.name # "" THEN author.name ELSE default.name
            author_email == IF author.email # "" THEN author.email ELSE default.email
            author_date == IF author.timezone # ""
                            THEN Date(author.timestamp, author.timezone) ELSE now
            a == parse_author_line(author_name, author_email,
                                   author_date.timestamp, author_date.timezone)
            c == parse_author_line(default.name, default.email,
                                   now.timestamp, now.timezone)
            tree == write_tree(s.index)
            HEAD == HeadOid(s.refs)
            MERGE_HEAD == IF allow_merge_parent
                            THEN get_ref(s.refs, "MERGE_HEAD", TRUE).oid ELSE 0
            oid == Len(s.commits) + 1
            r == commit_cleanup(s.refs, allow_merge_parent)
        IN ResOid([s EXCEPT !.trees = @ \cup {tree},
                            !.commits = Append(@, Commit(tree, commit_parents(HEAD, MERGE_HEAD),
                                                            a, c, message)),
                            !.refs = update_ref(r, "HEAD", Direct(oid), TRUE)],
                  "committed", oid)

\* ---------------------------------------------------------- checkout, reset
\* A HEAD value that is always detached.
checkout_head_detached(r, name, oid) == Direct(oid)

\* The HEAD value repository.checkout writes.
checkout_head(r, name, oid) ==
    IF is_branch(r, name) THEN Symbolic("refs/heads/" \o name.ref) ELSE Direct(oid)

\* A checkout that does not look for conflicts in the index.
checkout_over_conflicts(s, name) ==
    LET oid == get_oid(s.refs, name) IN
    IF oid \notin 1..Len(s.commits) THEN Res(s, "crash")
    ELSE
        LET s1 == read_tree(s, TreeOf(s.commits, oid), TRUE) IN
        ResOid([s1 EXCEPT !.refs = update_ref(s.refs, "HEAD",
                                              checkout_head(s.refs, name, oid), FALSE)],
               "checked-out", oid)

\* repository.checkout.  A name that get_oid cannot resolve, that resolves to no
\* oid, or whose oid is no commit of the store makes get_oid or get_commit raise
\* ("crash") before anything is written.
checkout(s, name) ==
    IF has_conflicts(s.index) THEN Res(s, "conflict")
    ELSE
        LET oid == get_oid(s.refs, name) IN
        IF oid \notin 1..Len(s.commits) THEN Res(s, "crash")
        ELSE
            LET s1 == read_tree(s, TreeOf(s.commits, oid), TRUE) IN
            ResOid([s1 EXCEPT !.refs = update_ref(s.refs, "HEAD",
                                                  checkout_head(s.refs, name, oid), FALSE)],
                   "checked-out", oid)

ResetModes == {"soft", "mixed", "hard"}

\* A reset whose soft mode overwrites the index as the mixed mode does.
reset_soft_as_mixed(s, oid, mode) ==
    read_tree([s EXCEPT !.refs = update_ref(s.refs, "HEAD", Direct(oid), TRUE)],
              TreeOf(s.commits, oid), mode = "hard")

\* repository.reset (no mode given is soft)
reset(s, oid, mode) ==
    LET s1 == [s EXCEPT !.refs = update_ref(s.refs, "HEAD", Direct(oid), TRUE)] IN
    IF mode \in {"mixed", "hard"}
        THEN read_tree(s1, TreeOf(s.commits, oid), mode = "hard")
        ELSE s1

\* -------------------------------------------------------------------- merge
\* The check that opens repository.merge.
merge_in_progress(r) == get_ref(r, "MERGE_HEAD", TRUE).oid # 0

\* A fast-forward test that is inverted.
is_fast_forward_inverted(merge_base, HEAD) == merge_base # HEAD

\* The fast-forward test of repository.merge.
is_fast_forward(merge_base, HEAD) == merge_base = HEAD

\* A merge that records MERGE_HEAD and no ORIG_HEAD.
merge_refs_no_orig_head(r, other, HEAD) == update_ref(r, "MERGE_HEAD", Direct(other), TRUE)

\* The refs repository.merge writes when it starts a three-way merge.
merge_refs(r, other, HEAD) ==
    update_ref(update_ref(r, "MERGE_HEAD", Direct(other), TRUE), "ORIG_HEAD", Direct(HEAD), TRUE)

\* repository.merge.  With no merge base, MERGE_HEAD and ORIG_HEAD are written and
\* then get_commit (None) raises.
merge(s, other, d3) ==
    IF merge_in_progress(s.refs) THEN Res(s, "refused")
    ELSE
        LET HEAD == HeadOid(s.refs) IN
        IF HEAD = 0 THEN Res(s, "crash")
        ELSE
            LET merge_base == get_merge_base(s.commits, other, HEAD) IN
            IF is_fast_forward(merge_base, HEAD)
                THEN Res([read_tree(s, TreeOf(s.commits, other), TRUE)
                            EXCEPT !.refs = update_ref(s.refs, "HEAD", Direct(other), TRUE)],
                         "fast-forward")
            ELSE
                LET s1 == [s EXCEPT !.refs = merge_refs(s.refs, other, HEAD)] IN
                IF merge_base = 0 THEN Res(s1, "crash-no-base")
                ELSE
                    LET s2 == read_tree_merged(s1, TreeOf(s.commits, merge_base),
                                               TreeOf(s.commits, HEAD),
                                               TreeOf(s.commits, other), TRUE, d3)
                    IN Res(s2, IF has_conflicts(s2.index) THEN "conflicts" ELSE "merged")

\* A merge_abort that leaves ORIG_HEAD behind.
merge_abort_keeps_orig_head(r) == delete_ref(r, "MERGE_HEAD", FALSE)

\* The refs repository.merge_abort deletes.
merge_abort_cleanup(r) ==
    delete_ref(delete_ref(r, "MERGE_HEAD", FALSE), "ORIG_HEAD", FALSE)

\* repository.merge_abort
merge_abort(s) ==
    IF get_ref(s.refs, "MERGE_HEAD", TRUE).oid = 0 THEN Res(s, "refused")
    ELSE
        LET ORIG_HEAD == get_ref(s.refs, "ORIG_HEAD", TRUE).oid IN
        IF ORIG_HEAD = 0 THEN Res(s, "refused-no-orig")
        ELSE
            LET s1 == reset(s, ORIG_HEAD, "hard") IN
            Res([s1 EXCEPT !.refs = merge_abort_cleanup(s1.refs)], "aborted")

\* ---------------------------------------------------------------------- add
\* An add that stages files and no deletions.
add_existing_only(s, path) ==
    IF s.working[path] # 0
        THEN [s EXCEPT !.index[path] = Clear(s.working[path])]
        ELSE s

\* repository.add for one path: a file on disk is staged clean, a missing one is
\* removed from the index.
add(s, path) ==
    IF s.working[path] # 0
        THEN [s EXCEPT !.index[path] = Clear(s.working[path])]
        ELSE [s EXCEPT !.index[path] = NoEntry]

\* repository.add for several paths.
RECURSIVE add_all(_, _)
add_all(s, paths) ==
    IF paths = {} THEN s
    ELSE LET p == CHOOSE x \in paths : TRUE IN add_all(add(s, p), paths \ {p})

\* repository._check_clean_state
check_clean_state(s) ==
    LET HEAD == HeadOid(s.refs) IN
    IF HEAD = 0 THEN TRUE
    ELSE
        LET head_tree == TreeOf(s.commits, HEAD)
            index_tree == get_index_tree(s.index)
        IN  /\ \A p \in Paths : head_tree[p] = index_tree[p]
            /\ \A p \in Paths : index_tree[p] = s.working[p]

\* --------------------------------------------------- applying one commit
\* A finish that has no check for an empty commit.
finish_apply_always_commits(s, commit_oid) ==
    commit([s EXCEPT !.trees = @ \cup {write_tree(s.index)}],
           s.commits[commit_oid].message, s.commits[commit_oid].author, FALSE)

\* A finish that commits as the commit command does, with the user as author.
finish_apply_as_user(s, commit_oid) ==
    LET new_tree == write_tree(s.index)
        s1 == [s EXCEPT !.trees = @ \cup {new_tree}]
        head_tree == TreeOf(s.commits, HeadOid(s.refs))
    IN
    IF new_tree = head_tree
        THEN Res(read_tree(s1, head_tree, TRUE), "skipped")
        ELSE commit(s1, s.commits[commit_oid].message, NoAuthor, FALSE)

\* repository._finish_apply: res is "skipped" (returns None) or "committed".
finish_apply(s, commit_oid) ==
    LET c == s.commits[commit_oid]
        new_tree == write_tree(s.index)
        s1 == [s EXCEPT !.trees = @ \cup {new_tree}]
        head_tree == TreeOf(s.commits, HeadOid(s.refs))
    IN
    IF new_tree = head_tree
        THEN Res(read_tree(s1, head_tree, TRUE), "skipped")
        ELSE commit(s1, c.message, c.author, FALSE)

\* repository._apply_commit: res is "conflicts", "skipped" or "committed".
apply_commit(s, commit_oid, d3) ==
    LET c == s.commits[commit_oid]
        base_tree == IF c.parents # <<>> THEN TreeOf(s.commits, c.parents[1]) ELSE EmptyTree
        head_tree == TreeOf(s.commits, HeadOid(s.refs))
        s1 == read_tree_merged(s, base_tree, head_tree, c.tree, TRUE, d3)
    IN
    IF has_conflicts(s1.index) THEN Res(s1, "conflicts")
    ELSE finish_apply(s1, commit_oid)

\* -------------------------------------------------------------- cherry-pick
\* A cleanup that deletes CHERRY_PICK_HEAD only.
cherry_pick_cleanup_keeps_orig_head(r) ==
    IF get_ref(r, "CHERRY_PICK_HEAD", TRUE).oid # 0
        THEN delete_ref(r, "CHERRY_PICK_HEAD", FALSE) ELSE r

\* repository._cherry_pick_cleanup
cherry_pick_cleanup(r) ==
    LET r1 == IF get_ref(r, "CHERRY_PICK_HEAD", TRUE).oid # 0
                THEN delete_ref(r, "CHERRY_PICK_HEAD", FALSE) ELSE r
    IN IF get_ref(r1, "ORIG_HEAD", TRUE).oid # 0
        THEN delete_ref(r1, "ORIG_HEAD", FALSE) ELSE r1

\* A check that looks for a merge in progress only.
cherry_pick_blocked_merge_only(s) ==
    IF get_ref(s.refs, "MERGE_HEAD", TRUE).oid # 0 THEN "refused-merge" ELSE ""

\* The three in-progress checks that open repository.cherry_pick ("": none taken).
cherry_pick_blocked(s) ==
    IF get_ref(s.refs, "MERGE_HEAD", TRUE).oid # 0 THEN "refused-merge"
    ELSE IF s.rebase.present THEN "refused-rebase"
    ELSE IF get_ref(s.refs, "CHERRY_PICK_HEAD", TRUE).oid # 0 THEN "refused-cherry-pick"
    ELSE ""

\* repository.cherry_pick
cherry_pick(s, commit_oid, d3) ==
    IF cherry_pick_blocked(s) # "" THEN Res(s, cherry_pick_blocked(s))
    ELSE IF has_conflicts(s.index) THEN Res(s, "conflict")
    ELSE IF ~check_clean_state(s) THEN Res(s, "dirty")
    ELSE IF s.commits[commit_oid].parents = <<>> THEN Res(s, "root")
    ELSE IF Len(s.commits[commit_oid].parents) > 1 THEN Res(s, "merge-commit")
    ELSE
        LET HEAD == HeadOid(s.refs) IN
        IF HEAD = 0 THEN Res(s, "crash")
        ELSE
            LET s1 == [s EXCEPT !.refs = update_ref(s.refs, "ORIG_HEAD", Direct(HEAD), TRUE)]
                a == apply_commit(s1, commit_oid, d3)
            IN
            IF a.res = "conflicts"
                THEN Res([a.s EXCEPT !.refs = update_ref(a.s.refs, "CHERRY_PICK_HEAD",
                                                         Direct(commit_oid), TRUE)],
                         "conflicts")
                ELSE ResOid([a.s EXCEPT !.refs = cherry_pick_cleanup(a.s.refs)], a.res, a.oid)

\* repository.cherry_pick_continue
cherry_pick_continue(s) ==
    LET cherry_pick_head == get_ref(s.refs, "CHERRY_PICK_HEAD", TRUE).oid IN
    IF cherry_pick_head = 0 THEN Res(s, "refused")
    ELSE IF has_conflicts(s.index) THEN Res(s, "conflicts-remain")
    ELSE
        LET f == finish_apply(s, cherry_pick_head) IN
        ResOid([f.s EXCEPT !.refs = cherry_pick_cleanup(f.s.refs)], f.res, f.oid)

\* repository.cherry_pick_abort
cherry_pick_abort(s) ==
    IF get_ref(s.refs, "CHERRY_PICK_HEAD", TRUE).oid = 0 THEN Res(s, "refused")
    ELSE
        LET orig_head == get_ref(s.refs, "ORIG_HEAD", TRUE).oid IN
        IF orig_head = 0 THEN Res(s, "refused-no-orig")
        ELSE
            LET s1 == reset(s, orig_head, "hard") IN
            Res([s1 EXCEPT !.refs = cherry_pick_cleanup(s1.refs)], "aborted")

\* ------------------------------------------------------------------- rebase
\* objects.get_rebase_state / save_rebase_state / delete_rebase_state
RebaseState(orig_head, upstream, cs, current_index) ==
    [present |-> TRUE, orig_head |-> orig_head, upstream |-> upstream,
     commits |-> cs, current_index |-> current_index]
NoRebase ==
    [present |-> FALSE, orig_head |-> 0, upstream |-> 0, commits |-> <<>>, current_index |-> 0]

\* The walk of repository.get_commits_to_replay, newest first.
RECURSIVE replay_walk(_, _, _)
replay_walk(cs, cur, merge_base) ==
    IF cur = 0 \/ cur = merge_base THEN <<>>
    ELSE <<cur>> \o replay_walk(cs, IF cs[cur].parents # <<>> THEN cs[cur].parents[1] ELSE 0,
                                merge_base)

Reverse(seq) == [i \in 1..Len(seq) |-> seq[Len(seq) + 1 - i]]

\* A replay list that is left in the order of the walk, newest first.
get_commits_to_replay_newest_first(cs, upstream_oid, head_oid) ==
    replay_walk(cs, head_oid, get_merge_base(cs, upstream_oid, head_oid))

\* repository.get_commits_to_replay
get_commits_to_replay(cs, upstream_oid, head_oid) ==
    Reverse(replay_walk(cs, head_oid, get_merge_base(cs, upstream_oid, head_oid)))

\* A cleanup that deletes the rebase state only.
rebase_cleanup_keeps_orig_head(s) == [s EXCEPT !.rebase = NoRebase]

\* repository._rebase_cleanup
rebase_cleanup(s) ==
    [s EXCEPT !.rebase = NoRebase,
              !.refs = IF get_ref(s.refs, "ORIG_HEAD", TRUE).oid # 0
                        THEN delete_ref(s.refs, "ORIG_HEAD", FALSE) ELSE s.refs]

\* A replay loop that, on a conflict, saves the position after the commit that
\* conflicted.
RECURSIVE rebase_replay_loop_past_conflict(_, _)
rebase_replay_loop_past_conflict(s, d3s) ==
    IF ~s.rebase.present THEN Res(s, "none")
    ELSE
        LET idx == s.rebase.current_index IN
        IF idx >= Len(s.rebase.commits) THEN Res(rebase_cleanup(s), "complete")
        ELSE
            LET a == apply_commit(s, s.rebase.commits[idx + 1], d3s[idx + 1]) IN
            IF a.res = "conflicts"
                THEN Res([a.s EXCEPT !.rebase.current_index = idx + 1], "conflicts")
                ELSE rebase_replay_loop_past_conflict(
                        [a.s EXCEPT !.rebase.current_index = idx + 1], d3s)

\* repository._rebase_replay_loop.  d3s[i] is what diff3 returns while the i-th
\* commit of the list is applied.
RECURSIVE rebase_replay_loop(_, _)
rebase_replay_loop(s, d3s) ==
    IF ~s.rebase.present THEN Res(s, "none")
    ELSE
        LET idx == s.rebase.current_index IN
        IF idx >= Len(s.rebase.commits) THEN Res(rebase_cleanup(s), "complete")
        ELSE
            LET a == apply_commit(s, s.rebase.commits[idx + 1], d3s[idx + 1]) IN
            IF a.res = "conflicts"
                THEN Res([a.s EXCEPT !.rebase.current_index = idx], "conflicts")
                ELSE rebase_replay_loop([a.s EXCEPT !.rebase.current_index = idx + 1], d3s)

\* The three in-progress checks that open repository.rebase ("": none taken).
rebase_blocked(s) ==
    IF get_ref(s.refs, "MERGE_HEAD", TRUE).oid # 0 THEN "refused-merge"
    ELSE IF s.rebase.present THEN "refused-rebase"
    ELSE IF get_ref(s.refs, "CHERRY_PICK_HEAD", TRUE).oid # 0 THEN "refused-cherry-pick"
    ELSE ""

\* A rebase that has no check for merge commits in the replay list.
rebase_replays_merge_commits(s, upstream_oid, d3s) ==
    IF rebase_blocked(s) # "" THEN Res(s, rebase_blocked(s))
    ELSE IF has_conflicts(s.index) THEN Res(s, "conflict")
    ELSE IF ~check_clean_state(s) THEN Res(s, "dirty")
    ELSE
        LET HEAD == HeadOid(s.refs) IN
        IF HEAD = 0 THEN Res(s, "crash")
        ELSE
            LET merge_base == get_merge_base(s.commits, upstream_oid, HEAD)
                commits_to_replay == get_commits_to_replay(s.commits, upstream_oid, HEAD)
            IN
            IF merge_base = 0 THEN Res(s, "no-common-history")
            ELSE IF merge_base = upstream_oid THEN Res(s, "up-to-date")
            ELSE IF commits_to_replay = <<>> THEN Res(s, "nothing-to-replay")
            ELSE
                LET s1 == [s EXCEPT
                            !.rebase = RebaseState(HEAD, upstream_oid, commits_to_replay, 0),
                            !.refs = update_ref(s.refs, "ORIG_HEAD", Direct(HEAD), TRUE)]
                IN rebase_replay_loop(reset(s1, upstream_oid, "hard"), d3s)

\* repository.rebase
rebase(s, upstream_oid, d3s) ==
    IF rebase_blocked(s) # "" THEN Res(s, rebase_blocked(s))
    ELSE IF has_conflicts(s.index) THEN Res(s, "conflict")
    ELSE IF ~check_clean_state(s) THEN Res(s, "dirty")
    ELSE
        LET HEAD == HeadOid(s.refs) IN
        IF HEAD = 0 THEN Res(s, "crash")
        ELSE
            LET merge_base == get_merge_base(s.commits, upstream_oid, HEAD)
                commits_to_replay == get_commits_to_replay(s.commits, upstream_oid, HEAD)
            IN
            IF merge_base = 0 THEN Res(s, "no-common-history")
            ELSE IF merge_base = upstream_oid THEN Res(s, "up-to-date")
            ELSE IF commits_to_replay = <<>> THEN Res(s, "nothing-to-replay")
            ELSE IF \E i \in DOMAIN commits_to_replay :
                        Len(s.commits[commits_to_replay[i]].parents) > 1
                THEN Res(s, "merge-commit")
            ELSE
                LET s1 == [s EXCEPT
                            !.rebase = RebaseState(HEAD, upstream_oid, commits_to_replay, 0),
                            !.refs = update_ref(s.refs, "ORIG_HEAD", Direct(HEAD), TRUE)]
                IN rebase_replay_loop(reset(s1, upstream_oid, "hard"), d3s)

\* repository.rebase_continue
rebase_continue(s, d3s) ==
    IF ~s.rebase.present THEN Res(s, "refused")
    ELSE IF has_conflicts(s.index) THEN Res(s, "conflicts-remain")
    ELSE
        LET idx == s.rebase.current_index
            f == finish_apply(s, s.rebase.commits[idx + 1])
        IN rebase_replay_loop([f.s EXCEPT !.rebase.current_index = idx + 1], d3s)

\* repository.rebase_abort
rebase_abort(s) ==
    IF ~s.rebase.present THEN Res(s, "refused")
    ELSE Res(rebase_cleanup(reset(s, s.rebase.orig_head, "hard")), "aborted")

\* ------------------------------------------------------------------- remote
\* remotes.fetch from a repository whose only branch, master, holds one root commit
\* with the given tree: the objects are copied, then refs/remote/master is set.
fetch(s, remote_tree) ==
    LET oid == Len(s.commits) + 1 IN
    [s EXCEPT !.trees = @ \cup {remote_tree},
              !.commits = Append(@, PlainCommit(remote_tree, <<>>, Them,
                                                format_timestamp(s.commits), "remote")),
              !.refs = update_ref(s.refs, "refs/remote/master", Direct(oid), TRUE)]

\* repository.create_branch
create_branch(s, name, oid) ==
    [s EXCEPT !.refs = update_ref(s.refs, "refs/heads/" \o name, Direct(oid), TRUE)]

\* ============================================================== the commands
S == State(refs, index, working, commits, trees, REBASE_STATE)

CommitIds == 1..Len(commits)
Oracle == [Paths -> Diff3Outcomes]

\* What HEAD was when the merge, cherry-pick or rebase in progress started, and the
\* branch HEAD was attached to when the rebase started; 0 and "" when none is in
\* progress.
StartOf(op, res, s) ==
    LET HEAD == HeadOid(refs)
        file == get_ref(refs, "HEAD", FALSE)
    IN
    [merge |-> IF op = "merge" /\ res \in {"merged", "conflicts", "crash-no-base"} THEN HEAD
               ELSE IF get_ref(s.refs, "MERGE_HEAD", TRUE).oid = 0 THEN 0
               ELSE start.merge,
     pick |-> IF op = "cherry_pick" /\ res = "conflicts" THEN HEAD
              ELSE IF get_ref(s.refs, "CHERRY_PICK_HEAD", TRUE).oid = 0 THEN 0
              ELSE start.pick,
     rebase |-> IF op = "rebase" /\ res = "conflicts" THEN HEAD
                ELSE IF ~s.rebase.present THEN 0
                ELSE start.rebase,
     branch |-> IF op = "rebase" /\ res = "conflicts"
                    THEN (IF file.symbolic THEN file.name ELSE "")
                ELSE IF ~s.rebase.present THEN ""
                ELSE start.branch]

\* The command's effect becomes the next state (a command that changes nothing is
\* a stuttering step); a command adds a commit only while the store holds fewer
\* than MaxCommits commit objects.
Becomes(s, op, res) ==
    /\ s # S
    /\ Len(s.commits) <= (IF Len(commits) > MaxCommits THEN Len(commits) ELSE MaxCommits)
    /\ refs' = s.refs
    /\ index' = s.index
    /\ working' = s.working
    /\ commits' = s.commits
    /\ trees' = s.trees
    /\ REBASE_STATE' = s.rebase
    /\ start' = StartOf(op, res, s)
    /\ UNCHANGED <<query, objects, proc, remote, files>>

\* The user edits or deletes a file of the working tree.
WriteFile ==
    \E p \in Paths, b \in Blobs :
        /\ working[p] # b
        /\ Becomes([S EXCEPT !.working[p] = b], "write", "ok")

RemoveFile ==
    \E p \in Paths :
        /\ working[p] # 0
        /\ Becomes([S EXCEPT !.working[p] = 0], "remove", "ok")

cli_add ==
    \E p \in Paths : Becomes(add(S, p), "add", "ok")

cli_commit ==
    \E message \in Messages :
        LET r == commit(S, message, NoAuthor, TRUE) IN Becomes(r.s, "commit", r.res)

cli_checkout ==
    \E name \in {BranchName(b) : b \in BranchNames} \cup {Hex(c) : c \in CommitIds} :
        LET r == checkout(S, name) IN Becomes(r.s, "checkout", r.res)

cli_branch ==
    \E b \in BranchNames, oid \in CommitIds :
        Becomes(create_branch(S, b, oid), "branch", "ok")

cli_reset ==
    \E oid \in CommitIds, mode \in ResetModes :
        Becomes(reset(S, oid, mode), "reset", mode)

\* diff3 runs only for a path in a conflict row: elsewhere one outcome stands for all.
NeedsDiff3(t_base, t_HEAD, t_other) ==
    \E p \in Paths :
        merge_entry(t_base[p], t_HEAD[p], t_other[p],
                    [has_conflict |-> TRUE, content |-> 1]).state = "conflict"

OracleFor(t_base, t_HEAD, t_other) ==
    IF NeedsDiff3(t_base, t_HEAD, t_other)
        THEN Oracle
        ELSE {[p \in Paths |-> [has_conflict |-> FALSE, content |-> 1]]}

\* The outcomes diff3 may have while commit other is merged into, or applied onto, HEAD.
MergeOracle(other) ==
    LET HEAD == HeadOid(refs)
        merge_base == get_merge_base(commits, other, HEAD)
    IN IF HEAD = 0 \/ merge_base = 0 THEN OracleFor(EmptyTree, EmptyTree, EmptyTree)
       ELSE OracleFor(TreeOf(commits, merge_base), TreeOf(commits, HEAD), TreeOf(commits, other))

ApplyOracle(c) ==
    LET HEAD == HeadOid(refs) IN
    IF HEAD = 0 \/ commits[c].parents = <<>> THEN OracleFor(EmptyTree, EmptyTree, EmptyTree)
    ELSE OracleFor(TreeOf(commits, commits[c].parents[1]), TreeOf(commits, HEAD),
                   TreeOf(commits, c))

cli_merge ==
    \E other \in CommitIds :
        \E d3 \in MergeOracle(other) :
            LET r == merge(S, other, d3) IN Becomes(r.s, "merge", r.res)

cli_merge_abort ==
    LET r == merge_abort(S) IN Becomes(r.s, "merge_abort", r.res)

cli_cherry_pick ==
    \E c \in CommitIds :
        \E d3 \in ApplyOracle(c) :
            LET r == cherry_pick(S, c, d3) IN Becomes(r.s, "cherry_pick", r.res)

cli_cherry_pick_continue ==
    LET r == cherry_pick_continue(S) IN Becomes(r.s, "cherry_pick_continue", r.res)

cli_cherry_pick_abort ==
    LET r == cherry_pick_abort(S) IN Becomes(r.s, "cherry_pick_abort", r.res)

\* The positions of the replay list a rebase (HEAD onto upstream) goes through.
ReplayPositions(upstream) ==
    IF HeadOid(refs) = 0 \/ rebase_blocked(S) # "" THEN {}
    ELSE 1..Len(get_commits_to_replay(commits, upstream, HeadOid(refs)))

cli_rebase ==
    \E upstream \in CommitIds :
        \E d3s \in [ReplayPositions(upstream) -> Oracle] :
            LET r == rebase(S, upstream, d3s) IN Becomes(r.s, "rebase", r.res)

cli_rebase_continue ==
    \E d3s \in [(REBASE_STATE.current_index + 2)..Len(REBASE_STATE.commits) -> Oracle] :
        LET r == rebase_continue(S, d3s) IN Becomes(r.s, "rebase_continue", r.res)

cli_rebase_abort ==
    LET r == rebase_abort(S) IN Becomes(r.s, "rebase_abort", r.res)

\* repository.init
InitState ==
    State([n \in RefNames |-> IF n = "HEAD" THEN Symbolic("refs/heads/master") ELSE NoRef],
          EmptyIndex, EmptyTree, <<>>, {}, NoRebase)

NoStart == [merge |-> 0, pick |-> 0, rebase |-> 0, branch |-> ""]

\* No object file is tracked: commits and trees are kept in their own variables.
NoObjects == <<>>

\* No command is in the middle of its steps.
Idle == [cmd |-> "", at |-> ""]

\* No other repository is tracked.
NoRemote == <<>>

NoFiles == <<>>

\* No pure function has been called.
NoQuery == [fn |-> "", a |-> 0, b |-> 0, out |-> 0, ancestor |-> FALSE]

Init ==
    /\ refs = InitState.refs
    /\ index = InitState.index
    /\ working = InitState.working
    /\ commits = InitState.commits
    /\ trees = InitState.trees
    /\ REBASE_STATE = InitState.rebase
    /\ start = NoStart
    /\ query = NoQuery
    /\ objects = NoObjects
    /\ proc = Idle
    /\ remote = NoRemote
    /\ files = NoFiles

Next ==
    \/ WriteFile
    \/ RemoveFile
    \/ cli_add
    \/ cli_commit
    \/ cli_checkout
    \/ cli_branch
    \/ cli_reset
    \/ cli_merge
    \/ cli_merge_abort
    \/ cli_cherry_pick
    \/ cli_cherry_pick_continue
    \/ cli_cherry_pick_abort
    \/ cli_rebase
    \/ cli_rebase_continue
    \/ cli_rebase_abort

Spec == Init /\ [][Next]_vars

\* --------------------------------------------- a repository that has fetched
\* The trees of the root commit the remote's master holds.
RemoteTrees == {[p \in Paths |-> 1]}

\* init, then fetch from a remote of unrelated history (as in
\* TestMergeEdgeCases.test_merge_no_common_ancestor).  A fetch copies objects and
\* writes refs/remote/master, which no other command reads or writes, and commit
\* ids are given in the order of creation: a run that fetches later is a run that
\* fetches first with the commits renumbered.
InitRemote ==
    \E remote_tree \in RemoteTrees :
        LET s == fetch(InitState, remote_tree) IN
        /\ refs = s.refs
        /\ index = s.index
        /\ working = s.working
        /\ commits = s.commits
        /\ trees = s.trees
        /\ REBASE_STATE = s.rebase
        /\ start = NoStart
        /\ query = NoQuery
        /\ objects = NoObjects
        /\ proc = Idle
        /\ remote = NoRemote
        /\ files = NoFiles

SpecRemote == InitRemote /\ [][Next]_vars

\* ------------------------------------------------ arbitrary commit graphs
\* The parent lists a commit may have over the commits 1..n-1: none (a root), one,
\* or two different ones (a merge commit), in either order.
ParentLists(n) ==
    {<<>>} \cup {<<p>> : p \in 1..(n - 1)}
           \cup {l \in {<<p, q>> : p, q \in 1..(n - 1)} : l[1] # l[2]}

\* The stores of n commits in which every parent is an older commit.
RECURSIVE Graphs(_)
Graphs(n) ==
    IF n = 0 THEN {<<>>}
    ELSE {Append(g, PlainCommit(EmptyTree, ps, Me, format_timestamp(g), "m")) :
            g \in Graphs(n - 1), ps \in ParentLists(n)}

InitGraph ==
    /\ commits \in UNION {Graphs(n) : n \in 1..MaxNodes}
    /\ refs = InitState.refs
    /\ index = InitState.index
    /\ working = InitState.working
    /\ trees = {EmptyTree}
    /\ REBASE_STATE = NoRebase
    /\ start = NoStart
    /\ query = NoQuery
    /\ objects = NoObjects
    /\ proc = Idle
    /\ remote = NoRemote
    /\ files = NoFiles

\* cli.merge_base: get_merge_base is called on two commits of the store.
CallMergeBase ==
    \E a, b \in CommitIds :
        /\ query' = [fn |-> "get_merge_base", a |-> a, b |-> b,
                     out |-> get_merge_base(commits, a, b),
                     ancestor |-> is_ancestor_of(commits, a, b)]
        /\ UNCHANGED <<refs, index, working, commits, trees, REBASE_STATE, start, objects, proc, remote, files>>

NextGraph == CallMergeBase

SpecGraph == InitGraph /\ [][NextGraph]_vars

\* ------------------------------------- a repository that holds a merge commit
\* init, commit 1 on master, commit 2 on master, commits 3 and 4 made from commit
\* 1 on a detached HEAD, commit 5 that merges 4 into 3, a fetch that brings the
\* unrelated root commit 6 of somebody else, then checkout master: the history
\* has a root, a merge commit, diverged commits and an unrelated commit.  Commit
\* 1 holds the file, commit 2 deletes it or gives it any content, commit 3 gives
\* it another content, commit 4 leaves it alone and the merge keeps commit 3's.
InitMerged ==
    \E t_2 \in [Paths -> 0..MaxBlob] : \E remote_tree \in RemoteTrees :
        LET t_base == [p \in Paths |-> 1]
            t_3 == [p \in Paths |-> MaxBlob]
            t_4 == t_base
            t_5 == t_3
        IN
        /\ commits = <<PlainCommit(t_base, <<>>, Me, Date(1, "+0000"), "base"),
                       PlainCommit(t_2, <<1>>, Me, Date(2, "+0000"), "m"),
                       PlainCommit(t_3, <<1>>, Me, Date(3, "+0000"), "m"),
                       PlainCommit(t_4, <<1>>, Me, Date(4, "+0000"), "m"),
                       PlainCommit(t_5, <<3, 4>>, Me, Date(5, "+0000"), "merge"),
                       PlainCommit(remote_tree, <<>>, Them, Date(6, "+0100"), "remote")>>
        /\ trees = {t_base, t_2, t_3, t_4, t_5, remote_tree}
        /\ refs = [InitState.refs EXCEPT !["refs/heads/master"] = Direct(2),
                                          !["refs/remote/master"] = Direct(6)]
        /\ index = [p \in Paths |-> IF t_2[p] # 0 THEN Clear(t_2[p]) ELSE NoEntry]
        /\ working = t_2
        /\ REBASE_STATE = NoRebase
        /\ start = NoStart
        /\ query = NoQuery
        /\ objects = NoObjects
        /\ proc = Idle
        /\ remote = NoRemote
        /\ files = NoFiles

\* The commands that make no commit.
NextMerged ==
    \/ WriteFile
    \/ cli_add
    \/ cli_checkout
    \/ cli_merge
    \/ cli_merge_abort
    \/ cli_cherry_pick
    \/ cli_cherry_pick_abort
    \/ cli_rebase
    \/ cli_rebase_abort

SpecMerged == InitMerged /\ [][NextMerged]_vars

\* ----------------------------------------- a rebase of two commits, undisturbed
\* init, commits 1 and 2 on master, reset --hard to commit 1, commits 3 and 4 on
\* master: master holds two commits that commit 2 does not have.  Commit 1 holds
\* the file and each other commit deletes it or gives it any content.
InitRebase ==
    \E t_2, t_3, t_4 \in [Paths -> 0..MaxBlob] :
        LET t_base == [p \in Paths |-> 1] IN
        /\ commits = <<PlainCommit(t_base, <<>>, Me, Date(1, "+0000"), "base"),
                       PlainCommit(t_2, <<1>>, Me, Date(2, "+0000"), "m"),
                       PlainCommit(t_3, <<1>>, Me, Date(3, "+0000"), "m"),
                       PlainCommit(t_4, <<3>>, Me, Date(4, "+0000"), "m")>>
        /\ trees = {t_base, t_2, t_3, t_4}
        /\ refs = [InitState.refs EXCEPT !["refs/heads/master"] = Direct(4)]
        /\ index = [p \in Paths |-> IF t_4[p] # 0 THEN Clear(t_4[p]) ELSE NoEntry]
        /\ working = t_4
        /\ REBASE_STATE = NoRebase
        /\ start = NoStart
        /\ query = NoQuery
        /\ objects = NoObjects
        /\ proc = Idle
        /\ remote = NoRemote
        /\ files = NoFiles

\* The effect of a rebase command becomes the next state; the store holds at most
\* MaxRebaseCommits commit objects.
Replayed(s, op, res) ==
    /\ s # S
    /\ Len(s.commits) <= MaxRebaseCommits
    /\ refs' = s.refs
    /\ index' = s.index
    /\ working' = s.working
    /\ commits' = s.commits
    /\ trees' = s.trees
    /\ REBASE_STATE' = s.rebase
    /\ start' = StartOf(op, res, s)
    /\ UNCHANGED <<query, objects, proc, remote, files>>

\* rebase and rebase --continue
RebaseStart ==
    \E upstream \in CommitIds :
        \E d3s \in [ReplayPositions(upstream) -> Oracle] :
            LET r == rebase(S, upstream, d3s) IN Replayed(r.s, "rebase", r.res)

RebaseContinue ==
    \E d3s \in [(REBASE_STATE.current_index + 2)..Len(REBASE_STATE.commits) -> Oracle] :
        LET r == rebase_continue(S, d3s) IN Replayed(r.s, "rebase_continue", r.res)

\* checkout between two rebases
CheckoutWhenIdle ==
    /\ ~REBASE_STATE.present
    /\ cli_checkout

\* While a rebase is stopped the user edits files, adds them and continues, and
\* runs no other command.
NextRebase ==
    \/ WriteFile
    \/ RemoveFile
    \/ cli_add
    \/ CheckoutWhenIdle
    \/ RebaseStart
    \/ RebaseContinue

SpecRebase == InitRebase /\ [][NextRebase]_vars

\* ------------------------------------------- a repository that has diverged
\* init, a commit on master, a second commit on master, and a third commit made
\* from the first one on a detached HEAD, then checkout master: commits 2 (HEAD)
\* and 3 have diverged from commit 1, and the file of each of the three trees is
\* absent or one of MaxTreeBlob contents.
InitDiverged ==
    \E t_base, t_HEAD, t_other \in [Paths -> 0..MaxTreeBlob] :
        /\ commits = <<PlainCommit(t_base, <<>>, Me, Date(1, "+0000"), "base"),
                       PlainCommit(t_HEAD, <<1>>, Me, Date(2, "+0000"), "head"),
                       PlainCommit(t_other, <<1>>, Them, Date(3, "+0100"), "other")>>
        /\ trees = {t_base, t_HEAD, t_other}
        /\ refs = [InitState.refs EXCEPT !["refs/heads/master"] = Direct(2)]
        /\ index = [p \in Paths |-> IF t_HEAD[p] # 0 THEN Clear(t_HEAD[p]) ELSE NoEntry]
        /\ working = t_HEAD
        /\ REBASE_STATE = NoRebase
        /\ start = NoStart
        /\ query = NoQuery
        /\ objects = NoObjects
        /\ proc = Idle
        /\ remote = NoRemote
        /\ files = NoFiles

\* The commands that start, stop on and abort a merge, a cherry-pick or a rebase,
\* with add and checkout.
NextDiverged ==
    \/ cli_add
    \/ cli_checkout
    \/ cli_merge
    \/ cli_merge_abort
    \/ cli_cherry_pick
    \/ cli_cherry_pick_abort
    \/ cli_rebase
    \/ cli_rebase_abort

SpecDiverged == InitDiverged /\ [][NextDiverged]_vars

\* ------------------------------------------------ a repository of two files
\* The files of a working tree with two files.
AddPaths == {"f", "g"}

\* A repository with two files in which a merge of two diverged commits has
\* stopped or is waiting for its commit: commits 2 (HEAD, on master) and 3 have
\* diverged from commit 1, merge (3) has written MERGE_HEAD and ORIG_HEAD, the
\* merged index and the working tree.
InitAdd ==
    \E t_base, t_HEAD, t_other \in [AddPaths -> 0..MaxBlob] :
        \E d3 \in [AddPaths -> Diff3Outcomes] :
            LET idx == [p \in AddPaths |->
                            merge_entry(t_base[p], t_HEAD[p], t_other[p], d3[p])]
            IN
            /\ commits = <<PlainCommit(t_base, <<>>, Me, Date(1, "+0000"), "base"),
                       PlainCommit(t_HEAD, <<1>>, Me, Date(2, "+0000"), "head"),
                       PlainCommit(t_other, <<1>>, Them, Date(3, "+0100"), "other")>>
            /\ trees = {t_base, t_HEAD, t_other}
            /\ refs = [InitState.refs EXCEPT !["refs/heads/master"] = Direct(2),
                                              !["MERGE_HEAD"] = Direct(3),
                                              !["ORIG_HEAD"] = Direct(2)]
            /\ index = idx
            /\ working = [p \in AddPaths |-> idx[p].oid]
            /\ REBASE_STATE = NoRebase
            /\ start = [NoStart EXCEPT !.merge = 2]
            /\ query = NoQuery
            /\ objects = NoObjects
            /\ proc = Idle
            /\ remote = NoRemote
            /\ files = NoFiles

\* The user edits or deletes one of the two files.
EditFile ==
    \E p \in AddPaths, b \in 0..MaxBlob :
        /\ working[p] # b
        /\ Becomes([S EXCEPT !.working[p] = b], "write", "ok")

\* cli.add for one of the two files.
AddPath ==
    \E p \in AddPaths : Becomes(add(S, p), "add", "ok")

NextAdd == EditFile \/ AddPath

SpecAdd == InitAdd /\ [][NextAdd]_vars

\* ================================================================ properties
Present(r, ref) == HasValue(ReadRef(r, ref))

\* The index that holds exactly the files of a tree, all clean.
CleanIndex(tree) == [p \in Paths |-> IF tree[p] # 0 THEN Clear(tree[p]) ELSE NoEntry]

\* HEAD resolves to oid, and index and working tree are that commit's tree.
RestoredTo(s, oid) ==
    /\ oid \in 1..Len(s.commits)
    /\ HeadOid(s.refs) = oid
    /\ s.index = CleanIndex(TreeOf(s.commits, oid))
    /\ s.working = TreeOf(s.commits, oid)

\* C1: in every reachable state at most one of MERGE_HEAD, CHERRY_PICK_HEAD and
\* REBASE_STATE is present.
C1_AtMostOneInProgress ==
    Cardinality({m \in {"MERGE_HEAD", "CHERRY_PICK_HEAD"} : Present(refs, m)})
        + (IF REBASE_STATE.present THEN 1 ELSE 0) <= 1

\* C2: commit succeeds exactly when the index has no conflicted entry; a refused
\* commit writes no tree and no commit object and leaves HEAD, every branch ref,
\* MERGE_HEAD, ORIG_HEAD and the index as they were; and after add has replaced
\* every conflicted entry, commit succeeds.
C2_CommitIffNoConflict ==
    LET r == commit(S, "m", NoAuthor, TRUE)
        resolved == add_all(S, get_conflicted_files(index))
    IN
    /\ (r.res = "committed") <=> ~has_conflicts(index)
    /\ has_conflicts(index) =>
        /\ r.s.trees = trees
        /\ r.s.commits = commits
        /\ r.s.refs = refs
        /\ r.s.index = index
    /\ commit(resolved, "m", NoAuthor, TRUE).res = "committed"

\* A conflicted index during a merge: commit is refused now and succeeds after add.
C2_Witness ==
    /\ has_conflicts(index)
    /\ Present(refs, "MERGE_HEAD")
    /\ commit(S, "m", NoAuthor, TRUE).res = "conflict"
    /\ commit(add_all(S, get_conflicted_files(index)), "m", NoAuthor, TRUE).res = "committed"

\* C3: a merge_abort that runs with MERGE_HEAD present and succeeds, whatever ran
\* since the merge started, leaves HEAD resolving to the commit it resolved to when
\* the merge started, the index equal to that commit's tree with every entry clean,
\* the working tree equal to it, and MERGE_HEAD and ORIG_HEAD absent.
C3_MergeAbortRestores ==
    LET r == merge_abort(S) IN
    (Present(refs, "MERGE_HEAD") /\ r.res = "aborted") =>
        /\ RestoredTo(r.s, start.merge)
        /\ ~Present(r.s.refs, "MERGE_HEAD")
        /\ ~Present(r.s.refs, "ORIG_HEAD")

\* A merge_abort that succeeds after HEAD was moved and the index and a file were
\* changed since the merge started.
C3_Witness ==
    /\ merge_abort(S).res = "aborted"
    /\ HeadOid(refs) # start.merge
    /\ working # TreeOf(commits, start.merge)

\* C4: a cherry_pick_abort that runs with CHERRY_PICK_HEAD present and succeeds,
\* whatever ran since the cherry-pick started, leaves HEAD resolving to the commit it
\* resolved to when the cherry-pick started, index and working tree equal to that
\* commit's tree, and CHERRY_PICK_HEAD and ORIG_HEAD absent.
C4_CherryPickAbortRestores ==
    LET r == cherry_pick_abort(S) IN
    (Present(refs, "CHERRY_PICK_HEAD") /\ r.res = "aborted") =>
        /\ RestoredTo(r.s, start.pick)
        /\ ~Present(r.s.refs, "CHERRY_PICK_HEAD")
        /\ ~Present(r.s.refs, "ORIG_HEAD")

\* C5: a rebase_abort that runs with REBASE_STATE present leaves HEAD resolving to the
\* recorded orig_head, the branch HEAD was attached to when the rebase started
\* pointing at orig_head, index and working tree equal to that commit's tree, and
\* REBASE_STATE and all transient refs absent.
C5_RebaseAbortRestores ==
    LET r == rebase_abort(S) IN
    REBASE_STATE.present =>
        /\ REBASE_STATE.orig_head = start.rebase
        /\ RestoredTo(r.s, REBASE_STATE.orig_head)
        /\ start.branch # "" =>
            get_ref(r.s.refs, start.branch, TRUE).oid = REBASE_STATE.orig_head
        /\ ~r.s.rebase.present
        /\ \A m \in {"MERGE_HEAD", "ORIG_HEAD", "CHERRY_PICK_HEAD"} : ~Present(r.s.refs, m)

\* The branch refs.
BranchRefs(r) == [b \in BranchNames |-> ReadRef(r, "refs/heads/" \o b)]

\* C6: a merge (one that is not refused because a merge is in progress) of a commit
\* other whose merge base with HEAD is HEAD leaves HEAD resolving to other, the index
\* clean and equal to the tree of other, the working tree equal to it, HEAD attached
\* to the branch it was attached to if it was symbolic (that branch now at other),
\* and MERGE_HEAD and ORIG_HEAD not created.
C6_FastForward ==
    \A other \in CommitIds : \A d3 \in Oracle :
        LET HEAD == HeadOid(refs)
            file == get_ref(refs, "HEAD", FALSE)
            r == merge(S, other, d3)
        IN
        (~Present(refs, "MERGE_HEAD") /\ HEAD # 0
                /\ get_merge_base(commits, other, HEAD) = HEAD) =>
            /\ RestoredTo(r.s, other)
            /\ file.symbolic =>
                /\ get_ref(r.s.refs, "HEAD", FALSE) = file
                /\ ReadRef(r.s.refs, file.name) = Direct(other)
            /\ ~Present(r.s.refs, "MERGE_HEAD")
            /\ ReadRef(r.s.refs, "ORIG_HEAD") = ReadRef(refs, "ORIG_HEAD")

\* HEAD, attached to a branch, is a proper ancestor of a commit whose tree differs
\* from the index and the working tree: merging it fast-forwards.
C6_Witness ==
    \E other \in CommitIds :
        /\ ~Present(refs, "MERGE_HEAD")
        /\ get_ref(refs, "HEAD", FALSE).symbolic
        /\ HeadOid(refs) \notin {0, other}
        /\ get_merge_base(commits, other, HeadOid(refs)) = HeadOid(refs)
        /\ TreeOf(commits, other) # working
        /\ index # CleanIndex(TreeOf(commits, other))
        /\ ~Present(refs, "ORIG_HEAD")

\* C7: on every commit graph, merge commits included, when a is an ancestor of c,
\* get_merge_base(c, a) is a.
C7_AncestorIsMergeBase ==
    (query.fn = "get_merge_base" /\ query.ancestor) => query.out = query.b

\* C8: a merge of a commit that has no common ancestor with HEAD fails without
\* starting a merge: MERGE_HEAD and ORIG_HEAD are not created and HEAD, the index
\* and the working tree are unchanged.
C8_NoCommonHistoryChangesNothing ==
    \A other \in CommitIds : \A d3 \in Oracle :
        LET HEAD == HeadOid(refs)
            r == merge(S, other, d3)
        IN
        (~Present(refs, "MERGE_HEAD") /\ HEAD # 0
                /\ get_merge_base(commits, other, HEAD) = 0) =>
            /\ r.res \notin {"fast-forward", "merged", "conflicts"}
            /\ ReadRef(r.s.refs, "MERGE_HEAD") = ReadRef(refs, "MERGE_HEAD")
            /\ ReadRef(r.s.refs, "ORIG_HEAD") = ReadRef(refs, "ORIG_HEAD")
            /\ ReadRef(r.s.refs, "HEAD") = ReadRef(refs, "HEAD")
            /\ HeadOid(r.s.refs) = HEAD
            /\ r.s.index = index
            /\ r.s.working = working

\* The three-way resolution of one path from the oids of base, HEAD and other
\* (0: absent): the side that changed wins, and two different changes are a
\* conflict row, settled by the textual merge d.
ThreeWay(b, h, o, d) ==
    IF h = o \/ o = b THEN (IF h = 0 THEN NoEntry ELSE Clear(h))
    ELSE IF h = b THEN (IF o = 0 THEN NoEntry ELSE Clear(o))
    ELSE IF ~d.has_conflict THEN Clear(d.content)
    ELSE [NoEntry EXCEPT !.state = "conflict", !.oid = d.content,
                         !.base = b, !.head = h, !.other = o,
                         !.type = IF b = 0 THEN "add_add"
                                  ELSE IF h = 0 THEN "current_delete_target_modify"
                                  ELSE IF o = 0 THEN "current_modify_target_delete"
                                  ELSE "content_conflict"]

C10_CommitParentsAndHead ==
    \A allow_merge_parent \in BOOLEAN :
        LET HEAD == HeadOid(refs)
            MERGE_HEAD == ReadRef(refs, "MERGE_HEAD").oid
            file == ReadRef(refs, "HEAD")
            r == commit(S, "m", NoAuthor, allow_merge_parent)
        IN
        r.res = "committed" =>
            /\ r.s.commits = Append(commits, r.s.commits[r.oid])
            /\ r.s.commits[r.oid].parents =
                    (IF HEAD # 0 THEN <<HEAD>> ELSE <<>>)
                    \o (IF allow_merge_parent /\ MERGE_HEAD # 0 THEN <<MERGE_HEAD>> ELSE <<>>)
            /\ HeadOid(r.s.refs) = r.oid
            /\ file.symbolic =>
                /\ ReadRef(r.s.refs, "HEAD") = file
                /\ ReadRef(r.s.refs, file.name) = Direct(r.oid)

\* A commit that concludes a merge while HEAD is attached to a branch.
C10_Witness ==
    /\ Present(refs, "MERGE_HEAD")
    /\ ReadRef(refs, "HEAD").symbolic
    /\ HeadOid(refs) # 0
    /\ ReadRef(refs, "MERGE_HEAD").oid # HeadOid(refs)
    /\ commit(S, "m", NoAuthor, TRUE).res = "committed"
    /\ Len(commit(S, "m", NoAuthor, TRUE).s.commits[commit(S, "m", NoAuthor, TRUE).oid].parents) = 2

\* C11: commit deletes MERGE_HEAD and ORIG_HEAD exactly when it consumed MERGE_HEAD
\* as a merge parent; a commit that consumes no merge parent leaves ORIG_HEAD,
\* CHERRY_PICK_HEAD and REBASE_STATE unchanged.
C11_CommitDeletesMergeRefsIffConsumed ==
    \A allow_merge_parent \in BOOLEAN :
        LET r == commit(S, "m", NoAuthor, allow_merge_parent)
            consumed == allow_merge_parent /\ Present(refs, "MERGE_HEAD")
        IN
        r.res = "committed" =>
            /\ consumed =>
                /\ ~Present(r.s.refs, "MERGE_HEAD")
                /\ ~Present(r.s.refs, "ORIG_HEAD")
            /\ ~consumed =>
                /\ ReadRef(r.s.refs, "MERGE_HEAD") = ReadRef(refs, "MERGE_HEAD")
                /\ ReadRef(r.s.refs, "ORIG_HEAD") = ReadRef(refs, "ORIG_HEAD")
                /\ ReadRef(r.s.refs, "CHERRY_PICK_HEAD") = ReadRef(refs, "CHERRY_PICK_HEAD")
                /\ r.s.rebase = REBASE_STATE

\* The rows of the decision table for one path, from the oids of base, head and
\* other (0: absent).
ConflictRow(b, h, o) ==
    \/ b = 0 /\ h # 0 /\ o # 0 /\ h # o
    \/ b # 0 /\ h = 0 /\ o \notin {0, b}
    \/ b # 0 /\ h \notin {0, b} /\ o = 0
    \/ b # 0 /\ h \notin {0, b} /\ o \notin {0, b} /\ h # o

RowType(b, h, o) ==
    IF b = 0 THEN "add_add"
    ELSE IF h = 0 THEN "current_delete_target_modify"
    ELSE IF o = 0 THEN "current_modify_target_delete"
    ELSE "content_conflict"

\* The conflicted entry the table asks for.
ConflictEntry(b, h, o, merged) ==
    [state |-> "conflict", oid |-> merged, type |-> RowType(b, h, o),
     base |-> b, head |-> h, other |-> o]

\* C12 (as stated): for every path in a conflict row, whatever the textual three-way
\* merge returns, merge_trees records a conflicted entry of the matching type with
\* the merged blob id and the three sides, and lists the path in conflicts.
C12_ConflictRowAlwaysConflict ==
    \A c_base, c_HEAD, c_other \in CommitIds : \A d3 \in Oracle : \A p \in Paths :
        LET b == TreeOf(commits, c_base)[p]
            h == TreeOf(commits, c_HEAD)[p]
            o == TreeOf(commits, c_other)[p]
            idx == merge_trees(TreeOf(commits, c_base), TreeOf(commits, c_HEAD),
                               TreeOf(commits, c_other), d3)
        IN ConflictRow(b, h, o) =>
            /\ idx[p] = ConflictEntry(b, h, o, d3[p].content)
            /\ p \in get_conflicted_files(idx)

\* C12 (amended): for every path in a conflict row, when the textual three-way merge
\* reports a conflict merge_trees records a conflicted entry of the matching type
\* with the merged blob id and the three sides and lists the path in conflicts; when
\* the textual merge is clean it records a clean entry with the merged blob id and
\* does not list the path.
C12_ConflictRowFollowsTextualMerge ==
    \A c_base, c_HEAD, c_other \in CommitIds : \A d3 \in Oracle : \A p \in Paths :
        LET b == TreeOf(commits, c_base)[p]
            h == TreeOf(commits, c_HEAD)[p]
            o == TreeOf(commits, c_other)[p]
            idx == merge_trees(TreeOf(commits, c_base), TreeOf(commits, c_HEAD),
                               TreeOf(commits, c_other), d3)
        IN ConflictRow(b, h, o) =>
            IF d3[p].has_conflict
                THEN /\ idx[p] = ConflictEntry(b, h, o, d3[p].content)
                     /\ p \in get_conflicted_files(idx)
                ELSE /\ idx[p] = Clear(d3[p].content)
                     /\ p \notin get_conflicted_files(idx)

\* A merge has stopped on a path both sides modified differently, and the index
\* holds the conflicted entry with the three sides.
C12_Witness ==
    /\ Present(refs, "MERGE_HEAD")
    /\ \E p \in Paths :
        /\ index[p].state = "conflict"
        /\ index[p].type = "content_conflict"
        /\ ConflictRow(index[p].base, index[p].head, index[p].other)
        /\ index[p].head = TreeOf(commits, HeadOid(refs))[p]
        /\ index[p].other = TreeOf(commits, ReadRef(refs, "MERGE_HEAD").oid)[p]

\* C13: for every path and every combination of base, head and other blob ids in a
\* non-conflict row, merge_trees gives the table's result: the path is dropped when
\* both sides lack it or when one side deleted it and the other left it unchanged;
\* it is clean with the changed side's id when only one side added or modified it;
\* and it is clean with head's id when head and other hold the same id.
C13_NonConflictRows ==
    \A c_base, c_HEAD, c_other \in CommitIds : \A d3 \in Oracle : \A p \in Paths :
        LET b == TreeOf(commits, c_base)[p]
            h == TreeOf(commits, c_HEAD)[p]
            o == TreeOf(commits, c_other)[p]
            idx == merge_trees(TreeOf(commits, c_base), TreeOf(commits, c_HEAD),
                               TreeOf(commits, c_other), d3)
        IN
        /\ (h = 0 /\ o = 0) => idx[p] = NoEntry
        /\ (b # 0 /\ h = 0 /\ o = b) => idx[p] = NoEntry
        /\ (b # 0 /\ o = 0 /\ h = b) => idx[p] = NoEntry
        /\ (b = 0 /\ h # 0 /\ o = 0) => idx[p] = Clear(h)
        /\ (b = 0 /\ h = 0 /\ o # 0) => idx[p] = Clear(o)
        /\ (b # 0 /\ h = b /\ o \notin {0, b}) => idx[p] = Clear(o)
        /\ (b # 0 /\ o = b /\ h \notin {0, b}) => idx[p] = Clear(h)
        /\ (h # 0 /\ h = o) => idx[p] = Clear(h)
        /\ ~ConflictRow(b, h, o) => p \notin get_conflicted_files(idx)

\* A merge has taken other's modification of a file HEAD left unchanged.
C13_Witness ==
    /\ Present(refs, "MERGE_HEAD")
    /\ \E p \in Paths :
        LET b == TreeOf(commits, get_merge_base(commits, ReadRef(refs, "MERGE_HEAD").oid,
                                                HeadOid(refs)))[p]
            h == TreeOf(commits, HeadOid(refs))[p]
            o == TreeOf(commits, ReadRef(refs, "MERGE_HEAD").oid)[p]
        IN  /\ b # 0 /\ h = b /\ o \notin {0, b}
            /\ index[p] = Clear(o)
            /\ working[p] = o

\* Every conflicted path of the index is a file of the working tree holding the
\* blob its entry names as merged.
ConflictsVisible(s) ==
    /\ has_conflicts(s.index)
    /\ \A p \in get_conflicted_files(s.index) :
        /\ s.index[p].oid # 0
        /\ s.working[p] = s.index[p].oid

C15_AddStagesOnePath ==
    \A p \in DOMAIN index :
        LET s == add(S, p) IN
        /\ working[p] # 0 => s.index[p] = Clear(working[p])
        /\ (working[p] = 0 /\ index[p] # NoEntry) => s.index[p] = NoEntry
        /\ \A q \in DOMAIN index \ {p} : s.index[q] = index[q]
        /\ DOMAIN s.index = DOMAIN index
        /\ s.refs = refs
        /\ s.rebase = REBASE_STATE

\* One file is conflicted and on disk, the other is conflicted too: add of the first
\* makes its entry clean and leaves the other conflicted.
C15_Witness ==
    \E p \in DOMAIN index : \E q \in DOMAIN index \ {p} :
        /\ index[p].state = "conflict"
        /\ working[p] \notin {0, index[p].oid}
        /\ index[q].state = "conflict"
        /\ add(S, p).index[p] = Clear(working[p])
        /\ add(S, p).index[q] = index[q]
        /\ has_conflicts(add(S, p).index)

\* C16: when cherry_pick (c) produces conflicts, CHERRY_PICK_HEAD is set to c,
\* ORIG_HEAD equals the unchanged HEAD and no commit is made; cherry_pick_continue is
\* refused without any state change while a conflicted entry remains, and once all
\* are resolved it commits the index (or skips when the result is empty) and
\* deletes CHERRY_PICK_HEAD and ORIG_HEAD.
C16_CherryPickConflictAndContinue ==
    /\ \A c \in CommitIds : \A d3 \in Oracle :
        LET r == cherry_pick(S, c, d3) IN
        r.res = "conflicts" =>
            /\ ReadRef(r.s.refs, "CHERRY_PICK_HEAD") = Direct(c)
            /\ ReadRef(r.s.refs, "ORIG_HEAD") = Direct(HeadOid(refs))
            /\ ReadRef(r.s.refs, "HEAD") = ReadRef(refs, "HEAD")
            /\ HeadOid(r.s.refs) = HeadOid(refs)
            /\ r.s.commits = commits
    /\ Present(refs, "CHERRY_PICK_HEAD") =>
        LET r == cherry_pick_continue(S)
            tree == write_tree(index)
        IN
        IF has_conflicts(index) THEN r.s = S /\ r.res = "conflicts-remain"
        ELSE
            /\ ~Present(r.s.refs, "CHERRY_PICK_HEAD")
            /\ ~Present(r.s.refs, "ORIG_HEAD")
            /\ IF tree = TreeOf(commits, HeadOid(refs))
                THEN /\ r.res = "skipped"
                     /\ r.s.commits = commits
                     /\ HeadOid(r.s.refs) = HeadOid(refs)
                ELSE /\ r.res = "committed"
                     /\ Len(r.s.commits) = Len(commits) + 1
                     /\ SubSeq(r.s.commits, 1, Len(commits)) = commits
                     /\ r.s.commits[Len(commits) + 1].tree = tree
                     /\ r.s.commits[Len(commits) + 1].parents = <<HeadOid(refs)>>
                     /\ HeadOid(r.s.refs) = Len(commits) + 1

\* A cherry-pick has stopped with conflicts, the user has resolved them with add,
\* and the continuation commits the index.
C16_Witness ==
    /\ Present(refs, "CHERRY_PICK_HEAD")
    /\ Present(refs, "ORIG_HEAD")
    /\ ~Present(refs, "MERGE_HEAD")
    /\ ~has_conflicts(index)
    /\ HeadOid(refs) = start.pick
    /\ cherry_pick_continue(S).res = "committed"

\* ---------------------------------------------------------------------- C17
\* The commits an operation has added to the store, oldest first.
NewCommits(s) == (Len(commits) + 1)..Len(s.commits)

\* Commit n of store cs replays commit c: one parent, c's author and message, and
\* the current identity as committer.
Replays(cs, n, c, parent) ==
    /\ cs[n].parents = <<parent>>
    /\ cs[n].author = commits[c].author
    /\ cs[n].message = commits[c].message
    /\ cs[n].committer.name = get_user_identity.name
    /\ cs[n].committer.email = get_user_identity.email

\* The commits a replay loop has added replay, in order, commits of the list
\* after position from; the first has parent onto, each other one the one before.
ReplaysInOrder(s, list, from, onto) ==
    /\ SubSeq(s.commits, 1, Len(commits)) = commits
    /\ \E f \in [NewCommits(s) -> (from + 1)..Len(list)] :
        /\ \A m, n \in NewCommits(s) : m < n => f[m] < f[n]
        /\ \A n \in NewCommits(s) :
            Replays(s.commits, n, list[f[n]],
                    IF n = Len(commits) + 1 THEN onto ELSE n - 1)

\* C17: every commit that cherry_pick, cherry_pick_continue, rebase or
\* rebase_continue creates has exactly one parent, the commit HEAD resolved to
\* just before it was made, the author (name, email, timestamp, timezone) and the
\* message of the commit it replays, and the current identity as committer;
\* MERGE_HEAD is never one of its parents.
C17_ReplayedCommits ==
    /\ \A c \in CommitIds : \A d3 \in Oracle :
        LET r == cherry_pick(S, c, d3) IN
        /\ Len(r.s.commits) <= Len(commits) + 1
        /\ ReplaysInOrder(r.s, <<c>>, 0, HeadOid(refs))
    /\ LET r == cherry_pick_continue(S) IN
        /\ Len(r.s.commits) <= Len(commits) + 1
        /\ ReplaysInOrder(r.s, <<get_ref(refs, "CHERRY_PICK_HEAD", TRUE).oid>>, 0,
                          HeadOid(refs))
    /\ \A upstream \in CommitIds : \A d3s \in [ReplayPositions(upstream) -> Oracle] :
        LET r == rebase(S, upstream, d3s) IN
        ReplaysInOrder(r.s, get_commits_to_replay(commits, upstream, HeadOid(refs)),
                       0, upstream)
    /\ \A d3s \in [(REBASE_STATE.current_index + 2)..Len(REBASE_STATE.commits) -> Oracle] :
        LET r == rebase_continue(S, d3s) IN
        ReplaysInOrder(r.s, REBASE_STATE.commits, REBASE_STATE.current_index,
                       HeadOid(refs))

\* A cherry-pick of a commit that somebody else wrote at another time has stopped
\* on a conflict, a merge has been started meanwhile, and the continuation makes
\* the commit.
C17_Witness ==
    /\ Present(refs, "CHERRY_PICK_HEAD")
    /\ Present(refs, "MERGE_HEAD")
    /\ cherry_pick_continue(S).res = "committed"
    /\ commits[get_ref(refs, "CHERRY_PICK_HEAD", TRUE).oid].author.name
            # get_user_identity.name
    /\ commits[get_ref(refs, "CHERRY_PICK_HEAD", TRUE).oid].author.timestamp
            # format_timestamp(commits).timestamp

\* ---------------------------------------------------------------------- C18
\* cherry_pick (c) is not rejected: nothing is in progress, the index and the
\* working tree are HEAD's tree, and c has exactly one parent.
PickAccepted(c) ==
    /\ HeadOid(refs) # 0
    /\ ~Present(refs, "MERGE_HEAD")
    /\ ~Present(refs, "CHERRY_PICK_HEAD")
    /\ ~REBASE_STATE.present
    /\ index = CleanIndex(TreeOf(commits, HeadOid(refs)))
    /\ working = TreeOf(commits, HeadOid(refs))
    /\ Len(commits[c].parents) = 1

\* The index that the three-way merge of c's parent, HEAD and c gives.
PickMerged(c, d3) ==
    merge_trees(TreeOf(commits, commits[c].parents[1]), TreeOf(commits, HeadOid(refs)),
                TreeOf(commits, c), d3)

\* C18: when applying c onto HEAD gives, without conflict, a tree equal to HEAD's
\* tree, cherry_pick (c) creates no commit: HEAD is unchanged, the index and the
\* working tree are HEAD's tree, and ORIG_HEAD and CHERRY_PICK_HEAD are absent.
C18_EmptyPickIsSkipped ==
    \A c \in CommitIds : \A d3 \in Oracle :
        LET r == cherry_pick(S, c, d3) IN
        (/\ PickAccepted(c)
         /\ ~has_conflicts(PickMerged(c, d3))
         /\ write_tree(PickMerged(c, d3)) = TreeOf(commits, HeadOid(refs)))
        => /\ r.res = "skipped"
           /\ r.s.commits = commits
           /\ ReadRef(r.s.refs, "HEAD") = ReadRef(refs, "HEAD")
           /\ RestoredTo(r.s, HeadOid(refs))
           /\ ~Present(r.s.refs, "ORIG_HEAD")
           /\ ~Present(r.s.refs, "CHERRY_PICK_HEAD")
           /\ \A b \in BranchNames :
                ReadRef(r.s.refs, "refs/heads/" \o b) = ReadRef(refs, "refs/heads/" \o b)

\* HEAD already holds the change of a commit that is not one of its ancestors,
\* and picking that commit brings nothing.
C18_Witness ==
    \E c \in CommitIds : \E d3 \in Oracle :
        /\ PickAccepted(c)
        /\ c # HeadOid(refs)
        /\ TreeOf(commits, c) # TreeOf(commits, commits[c].parents[1])
        /\ ~has_conflicts(PickMerged(c, d3))
        /\ write_tree(PickMerged(c, d3)) = TreeOf(commits, HeadOid(refs))
        /\ cherry_pick(S, c, d3).res = "skipped"

\* ---------------------------------------------------------------------- C19
\* A merge, a cherry-pick or a rebase is in progress.
InProgress ==
    \/ Present(refs, "MERGE_HEAD")
    \/ Present(refs, "CHERRY_PICK_HEAD")
    \/ REBASE_STATE.present

\* There are staged changes (index against HEAD) or unstaged changes (working
\* tree against index).
Dirty ==
    /\ HeadOid(refs) # 0
    /\ \/ get_index_tree(index) # TreeOf(commits, HeadOid(refs))
       \/ working # get_index_tree(index)

\* The results of a cherry_pick that returns, or raises, before it writes.
PickRejections ==
    {"refused-merge", "refused-rebase", "refused-cherry-pick", "conflict", "dirty",
     "root", "merge-commit"}

\* C19: cherry_pick is rejected when a merge, a rebase or a cherry-pick is in
\* progress, when there are staged or unstaged changes relative to HEAD, and when
\* the target is a root commit or a merge commit; a rejected cherry_pick leaves
\* HEAD, the index, the working tree, ORIG_HEAD, CHERRY_PICK_HEAD, MERGE_HEAD and
\* REBASE_STATE (and every other part of the repository) unchanged.
C19_RejectedPickChangesNothing ==
    \A c \in CommitIds : \A d3 \in Oracle :
        LET r == cherry_pick(S, c, d3) IN
        /\ (InProgress \/ Dirty \/ Len(commits[c].parents) # 1)
            => r.res \in PickRejections
        /\ r.res \in PickRejections => r.s = S

\* A rebase is in progress, its conflict is out of the index, and a cherry-pick of
\* a commit that has one parent is refused.
C19_Witness ==
    /\ REBASE_STATE.present
    /\ ~has_conflicts(index)
    /\ check_clean_state(S)
    /\ \E c \in CommitIds : \E d3 \in Oracle :
        /\ Len(commits[c].parents) = 1
        /\ cherry_pick(S, c, d3).res = "refused-rebase"

\* ---------------------------------------------------------------------- C20
\* Commits a and b have no common ancestor.
NoCommonAncestor(a, b) ==
    ~\E x \in CommitIds : is_ancestor_of(commits, a, x) /\ is_ancestor_of(commits, b, x)

\* The replay list of a rebase of HEAD onto upstream holds a merge commit.
ReplaysMergeCommit(upstream) ==
    LET list == get_commits_to_replay(commits, upstream, HeadOid(refs)) IN
    \E i \in DOMAIN list : Len(commits[list[i]].parents) > 1

\* The results of a rebase that returns, or raises, before it writes.
RebaseRejections ==
    {"refused-merge", "refused-rebase", "refused-cherry-pick", "conflict", "dirty",
     "no-common-history", "up-to-date", "nothing-to-replay", "merge-commit"}

\* C20: rebase does nothing when a merge, a cherry-pick or a rebase is in
\* progress, when the working tree or the index is dirty, when upstream and HEAD
\* have no common ancestor, when the merge base is upstream (upstream is an
\* ancestor of HEAD) and when the replay list holds a merge commit: no
\* REBASE_STATE and no ORIG_HEAD is created, and HEAD, the index and the working
\* tree (and every other part of the repository) are unchanged.
C20_RefusedRebaseChangesNothing ==
    \A upstream \in CommitIds : \A d3s \in [ReplayPositions(upstream) -> Oracle] :
        LET HEAD == HeadOid(refs)
            r == rebase(S, upstream, d3s)
        IN
        (\/ InProgress
         \/ Dirty
         \/ /\ HEAD # 0
            /\ \/ NoCommonAncestor(upstream, HEAD)
               \/ get_merge_base(commits, upstream, HEAD) = upstream
               \/ is_ancestor_of(commits, HEAD, upstream)
               \/ ReplaysMergeCommit(upstream))
        => /\ r.res \in RebaseRejections
           /\ r.s = S
           /\ r.s.rebase = REBASE_STATE
           /\ ReadRef(r.s.refs, "ORIG_HEAD") = ReadRef(refs, "ORIG_HEAD")
           /\ ReadRef(r.s.refs, "HEAD") = ReadRef(refs, "HEAD")

\* Nothing is in progress, nothing is edited, HEAD is a merge commit and the
\* upstream has diverged from it: the rebase is refused for the merge commit.
C20_Witness ==
    /\ ~InProgress
    /\ ~Dirty
    /\ HeadOid(refs) # 0
    /\ Len(commits[HeadOid(refs)].parents) > 1
    /\ \E upstream \in CommitIds :
        /\ ~is_ancestor_of(commits, HeadOid(refs), upstream)
        /\ ~NoCommonAncestor(upstream, HeadOid(refs))
        /\ ReplaysMergeCommit(upstream)
        /\ rebase(S, upstream, [i \in ReplayPositions(upstream) |->
                                    [p \in Paths |-> [has_conflict |-> FALSE, content |-> 1]]]).res
            = "merge-commit"

\* ---------------------------------------------------------------------- C21
\* The branch ref HEAD is attached to ("" when HEAD is detached).
AttachedTo(r) == IF ReadRef(r, "HEAD").symbolic THEN ReadRef(r, "HEAD").name ELSE ""

\* A rebase onto upstream is over in state s: REBASE_STATE and ORIG_HEAD are
\* absent, HEAD is attached to the branch it was attached to when the rebase
\* started, and upstream is an ancestor of the commit HEAD resolves to.
RebaseCompleted(s, upstream, branch) ==
    /\ ~s.rebase.present
    /\ ~Present(s.refs, "ORIG_HEAD")
    /\ AttachedTo(s.refs) = branch
    /\ HeadOid(s.refs) # 0
    /\ is_ancestor_of(s.commits, HeadOid(s.refs), upstream)

SameBranch(s) ==
    /\ ReadRef(s.refs, "HEAD") = ReadRef(refs, "HEAD")
    /\ ReadRef(s.refs, AttachedTo(refs)).oid = HeadOid(s.refs)

\* C22: while HEAD is symbolic, commit, reset, merge (fast-forward or not),
\* merge_abort, cherry_pick with its continue and abort, and rebase with its
\* continue and abort leave the HEAD file unchanged and move the branch it names.
C22_OnlyCheckoutReattaches ==
    ReadRef(refs, "HEAD").symbolic =>
        /\ \A allow_merge_parent \in BOOLEAN :
            SameBranch(commit(S, "m", NoAuthor, allow_merge_parent).s)
        /\ \A oid \in CommitIds : \A mode \in ResetModes : SameBranch(reset(S, oid, mode))
        /\ \A c \in CommitIds : \A d3 \in Oracle :
            /\ SameBranch(merge(S, c, d3).s)
            /\ SameBranch(cherry_pick(S, c, d3).s)
        /\ SameBranch(merge_abort(S).s)
        /\ SameBranch(cherry_pick_continue(S).s)
        /\ SameBranch(cherry_pick_abort(S).s)
        /\ \A upstream \in CommitIds : \A d3s \in [ReplayPositions(upstream) -> Oracle] :
            SameBranch(rebase(S, upstream, d3s).s)
        /\ \A d3s \in [(REBASE_STATE.current_index + 2)..Len(REBASE_STATE.commits) -> Oracle] :
            SameBranch(rebase_continue(S, d3s).s)
        /\ SameBranch(rebase_abort(S).s)

\* HEAD is attached to master, and a rebase moves master to a new commit on top
\* of the upstream.
C22_Witness ==
    /\ ReadRef(refs, "HEAD") = Symbolic("refs/heads/master")
    /\ \E upstream \in CommitIds : \E d3s \in [ReplayPositions(upstream) -> Oracle] :
        LET r == rebase(S, upstream, d3s) IN
        /\ r.res = "complete"
        /\ Len(r.s.commits) > Len(commits)
        /\ ReadRef(r.s.refs, "refs/heads/master") = Direct(Len(r.s.commits))
        /\ ReadRef(r.s.refs, "HEAD") = Symbolic("refs/heads/master")

\* ---------------------------------------------------------------------- C23
\* Names given to checkout: the branches, HEAD and ORIG_HEAD, the name of no ref,
\* the ids of the commits and the id of no object.
CheckoutNames ==
    {BranchName(b) : b \in BranchNames}
        \cup {Name("HEAD", 0), Name("ORIG_HEAD", 0), Name("nonexistent-branch", 0)}
        \cup {Hex(c) : c \in 1..(Len(commits) + 1)}

\* The name resolves to a commit of the store.
Resolves(name) == get_oid(refs, name) \in 1..Len(commits)

\* C23: checkout is refused when the index has a conflicted entry and when the
\* name does not resolve; in both cases HEAD, the index and the working tree
\* (and every other part of the repository) are unchanged.
C23_RefusedCheckoutChangesNothing ==
    \A name \in CheckoutNames :
        LET r == checkout(S, name) IN
        /\ has_conflicts(index) => r.res = "conflict" /\ r.s = S
        /\ ~Resolves(name) => r.res \in {"conflict", "crash"} /\ r.s = S
        /\ (~has_conflicts(index) /\ Resolves(name)) => r.res = "checked-out"

\* The index holds a conflict, master names another commit than HEAD, and
\* checkout master is refused.
C23_Witness ==
    /\ has_conflicts(index)
    /\ Resolves(BranchName("master"))
    /\ get_oid(refs, BranchName("master")) # HeadOid(refs)
    /\ checkout(S, BranchName("master")).res = "conflict"

\* ---------------------------------------------------------------------- C24
\* C24: after a successful checkout (name) the index is the tree of the commit
\* the name resolves to, every entry clean, the working tree is that tree, and
\* HEAD is symbolic to refs/heads/<name> when name is a branch name and holds
\* the commit id otherwise.
C24_CheckoutSwitches ==
    \A name \in CheckoutNames :
        LET r == checkout(S, name)
            oid == get_oid(refs, name)
        IN
        r.res = "checked-out" =>
            /\ oid \in 1..Len(commits)
            /\ r.s.index = CleanIndex(TreeOf(commits, oid))
            /\ r.s.working = TreeOf(commits, oid)
            /\ r.s.commits = commits
            /\ ReadRef(r.s.refs, "HEAD") =
                IF name.hex = 0 /\ Present(refs, "refs/heads/" \o name.ref)
                    THEN Symbolic("refs/heads/" \o name.ref)
                    ELSE Direct(oid)
            /\ HeadOid(r.s.refs) = oid
            /\ \A n \in RefNames \ {"HEAD"} : ReadRef(r.s.refs, n) = ReadRef(refs, n)

\* HEAD is detached at a commit whose tree is not master's, the working tree has
\* an edited file, and checkout master succeeds.
C24_Witness ==
    /\ ~ReadRef(refs, "HEAD").symbolic
    /\ Resolves(BranchName("master"))
    /\ TreeOf(commits, get_oid(refs, BranchName("master"))) # working
    /\ TreeOf(commits, get_oid(refs, BranchName("master"))) # TreeOf(commits, HeadOid(refs))
    /\ checkout(S, BranchName("master")).res = "checked-out"

\* ---------------------------------------------------------------------- C25
\* The refs other than HEAD and the branch HEAD is attached to.
OtherRefs == RefNames \ {"HEAD", AttachedTo(refs)}

\* C25: reset (oid) makes HEAD resolve to oid in every mode, and changes no
\* other ref (MERGE_HEAD, ORIG_HEAD, CHERRY_PICK_HEAD), REBASE_STATE or commit;
\* soft (also the mode when none is given) leaves index and working tree
\* unchanged, mixed replaces the index by the commit's tree, every entry clean,
\* and leaves the working tree unchanged, hard also makes the working tree that
\* tree.
C25_ResetModes ==
    \A oid \in CommitIds : \A mode \in ResetModes :
        LET s == reset(S, oid, mode)
            tree == TreeOf(commits, oid)
        IN
        /\ HeadOid(s.refs) = oid
        /\ AttachedTo(s.refs) = AttachedTo(refs)
        /\ \A n \in OtherRefs : ReadRef(s.refs, n) = ReadRef(refs, n)
        /\ s.rebase = REBASE_STATE
        /\ s.commits = commits
        /\ s.index = IF mode = "soft" THEN index ELSE CleanIndex(tree)
        /\ s.working = IF mode = "hard" THEN tree ELSE working

\* A merge has stopped on a conflict, the user has edited the file, and the
\* commit to reset to is not HEAD and has another tree than index and working tree.
C25_Witness ==
    /\ Present(refs, "MERGE_HEAD")
    /\ Present(refs, "ORIG_HEAD")
    /\ has_conflicts(index)
    /\ \E oid \in CommitIds :
        /\ oid # HeadOid(refs)
        /\ TreeOf(commits, oid) # working
        /\ index # CleanIndex(TreeOf(commits, oid))
        /\ reset(S, oid, "soft").index = index
        /\ reset(S, oid, "mixed").working = working
        /\ reset(S, oid, "hard").working # working

\* ---------------------------------------------------------------------- C26
\* C26: a merge (not refused because a merge is in progress) of a commit other
\* that is a proper ancestor of HEAD leaves the commit HEAD resolves to, the
\* index and the working tree unchanged, and leaves no merge in progress:
\* MERGE_HEAD and ORIG_HEAD are absent afterwards.
C26_MergeOfAncestorIsNoOp ==
    \A other \in CommitIds : \A d3 \in Oracle :
        LET HEAD == HeadOid(refs)
            r == merge(S, other, d3)
        IN
        (/\ ~Present(refs, "MERGE_HEAD")
         /\ HEAD # 0
         /\ other # HEAD
         /\ is_ancestor_of(commits, HEAD, other))
        => /\ HeadOid(r.s.refs) = HEAD
           /\ get_index_tree(r.s.index) = get_index_tree(index)
           /\ r.s.working = working
           /\ ~Present(r.s.refs, "MERGE_HEAD")
           /\ ~Present(r.s.refs, "ORIG_HEAD")

\* ---------------------------------------------------------------------- C27
\* The commits reachable from c through parents, c included (a parent is an
\* older commit).
RECURSIVE AncestorsOrSelf(_)
AncestorsOrSelf(c) ==
    {c} \cup UNION {AncestorsOrSelf(commits[c].parents[i]) : i \in DOMAIN commits[c].parents}

\* C27: on every commit graph, get_merge_base (a, b) returns none exactly when a
\* and b have no common ancestor, otherwise it returns a commit that is an
\* ancestor of, or is, both a and b, and get_merge_base (a, a) is a.
C27_MergeBaseIsCommonAncestor ==
    \A a, b \in CommitIds :
        LET out == get_merge_base(commits, a, b)
            common == AncestorsOrSelf(a) \cap AncestorsOrSelf(b)
        IN
        /\ out = 0 <=> common = {}
        /\ out # 0 => out \in common
        /\ get_merge_base(commits, a, a) = a
        /\ (query.fn = "get_merge_base" /\ query.a = a /\ query.b = b) => query.out = out

\* get_merge_base has been called on a merge commit and a commit of an unrelated
\* history, and has returned none.
C27_Witness ==
    /\ query.fn = "get_merge_base"
    /\ query.out = 0
    /\ Len(commits[query.a].parents) = 2
    /\ AncestorsOrSelf(query.a) \cap AncestorsOrSelf(query.b) = {}

\* ------------------------------------------------------------ object store
\* The object files and the nested tree objects, as objects.hash_object,
\* repository.write_tree and repository.get_tree handle them.  Here an oid is a
\* string and a path is a string with '/' separators.

\* Writes of object files in one run (the commands that would exceed it are disabled).
MaxWrites == 4

\* File contents.
Contents == {"x", "y"}
\* The paths of the working directory: a file "a" or a directory "a" holding
\* "b", and a file "c".
StorePaths == {"a", "a/b", "c"}
\* The names of one directory level, in the order of sorted ().
TreeNames == <<"a", "b", "c">>
\* The paths in the order in which get_tree yields them.
PathOrder == <<"a", "a/b", "c">>

\* path.split ('/')
path_parts(path) ==
    CASE path = "a" -> <<"a">>
      [] path = "a/b" -> <<"a", "b">>
      [] path = "c" -> <<"c">>

\* dict item assignment, and dict.update
Put(d, key, value) == [k \in DOMAIN d \cup {key} |-> IF k = key THEN value ELSE d[k]]
Update(d, other) ==
    [k \in DOMAIN d \cup DOMAIN other |-> IF k \in DOMAIN other THEN other[k] ELSE d[k]]

\* hashlib.sha1 (obj).hexdigest (): different objects have different ids.
sha1(type_, text) == type_ \o "(" \o text \o ")"

\* One line of a tree object: f'{type_} {oid} {name}\n'
tree_line(type_, oid, name) == type_ \o " " \o oid \o " " \o name

\* ''.join of the lines of a tree object
RECURSIVE join(_)
join(lines) == IF lines = <<>> THEN "" ELSE Head(lines) \o "\n" \o join(Tail(lines))

\* The bytes of an object's payload: a blob's content, a tree's lines.
encode(data, type_) == IF type_ = "tree" THEN join(data) ELSE data

\* An object file: its type, its payload, and how many times it has been opened
\* for writing.
Object(type_, data, writes) == [type |-> type_, data |-> data, writes |-> writes]

\* The number of writes of object files so far.
RECURSIVE TotalWrites(_)
TotalWrites(store) ==
    IF DOMAIN store = {} THEN 0
    ELSE LET o == CHOOSE o \in DOMAIN store : TRUE
         IN store[o].writes + TotalWrites([k \in DOMAIN store \ {o} |-> store[k]])

\* objects.hash_object: the object file is opened 'wb' and written, whether or
\* not it exists.
hash_object(store, data, type_) ==
    LET oid == sha1(type_, encode(data, type_))
        writes == IF oid \in DOMAIN store THEN store[oid].writes + 1 ELSE 1
    IN [store |-> Put(store, oid, Object(type_, data, writes)), oid |-> oid]

\* objects.get_object (oid, expected)
get_object(store, oid, expected) == store[oid].data

\* entry.split (' ', 2): the type, oid and name that make up the line.
split_entry(store, entry) ==
    CHOOSE e \in {"blob", "tree"} \X (DOMAIN store) \X Range(TreeNames) :
        tree_line(e[1], e[2], e[3]) = entry

\* repository.get_tree (oid, base_path): path -> blob oid
RECURSIVE get_tree(_, _, _)
RECURSIVE get_tree_entries(_, _, _, _)
get_tree_entries(store, entries, base_path, result) ==
    IF entries = <<>> THEN result
    ELSE
        LET e == split_entry(store, Head(entries))
            path == base_path \o e[3]
            next == IF e[1] = "blob" THEN Put(result, path, e[2])
                    ELSE Update(result, get_tree(store, e[2], path \o "/"))
        IN get_tree_entries(store, Tail(entries), base_path, next)

get_tree(store, oid, base_path) ==
    get_tree_entries(store, get_object(store, oid, "tree"), base_path, <<>>)

\* The values of index_as_tree: an oid (a str), a dict of such values, or the
\* TypeError / AttributeError of treating a str as a dict.
BlobValue(oid) == [kind |-> "str", oid |-> oid, children |-> <<>>]
DictValue(children) == [kind |-> "dict", oid |-> "", children |-> children]
Raised == [kind |-> "error", oid |-> "", children |-> <<>>]

\* write_tree, one index entry: walk down the directories with setdefault, then
\* current[filename] = oid.
RECURSIVE set_path(_, _, _)
set_path(current, path_parts_, oid) ==
    IF current.kind # "dict" THEN Raised
    ELSE IF Len(path_parts_) = 1
    THEN DictValue(Put(current.children, path_parts_[1], BlobValue(oid)))
    ELSE
        LET dirname == Head(path_parts_)
            child == IF dirname \in DOMAIN current.children
                       THEN current.children[dirname] ELSE DictValue(<<>>)
            below == set_path(child, Tail(path_parts_), oid)
        IN IF below.kind = "error" THEN Raised
           ELSE DictValue(Put(current.children, dirname, below))

\* write_tree, the loop over index.items (): entries are [path, state, oid],
\* in the order of the index file; an entry without an oid ("") is skipped.
RECURSIVE index_as_tree(_, _)
index_as_tree(entries, current) ==
    IF entries = <<>> \/ current.kind = "error" THEN current
    ELSE IF Head(entries).oid = "" THEN index_as_tree(Tail(entries), current)
    ELSE index_as_tree(Tail(entries),
                       set_path(current, path_parts(Head(entries).path), Head(entries).oid))

\* write_tree.write_tree_recursive: the entries sorted by name, joined, hashed.
RECURSIVE write_tree_recursive(_, _)
RECURSIVE write_tree_entries(_, _, _, _)
write_tree_entries(store, tree_dict, names, entries) ==
    IF names = <<>> THEN [store |-> store, entries |-> entries]
    ELSE IF Head(names) \notin DOMAIN tree_dict
    THEN write_tree_entries(store, tree_dict, Tail(names), entries)
    ELSE
        LET value == tree_dict[Head(names)]
            type_ == IF value.kind = "dict" THEN "tree" ELSE "blob"
            sub == IF value.kind = "dict" THEN write_tree_recursive(store, value.children)
                   ELSE [store |-> store, oid |-> value.oid]
        IN write_tree_entries(sub.store, tree_dict, Tail(names),
                              Append(entries, tree_line(type_, sub.oid, Head(names))))

write_tree_recursive(store, tree_dict) ==
    LET w == write_tree_entries(store, tree_dict, TreeNames, <<>>)
    IN hash_object(w.store, w.entries, "tree")

\* repository.write_tree over the nested paths: the store afterwards, the
\* outcome and the oid of the root tree.
write_tree_nested(store, entries) ==
    LET root == index_as_tree(entries, DictValue(<<>>))
    IN IF root.kind = "error" THEN [store |-> store, res |-> "crash", oid |-> ""]
       ELSE LET w == write_tree_recursive(store, root.children)
            IN [store |-> w.store, res |-> "ok", oid |-> w.oid]

\* The index file as a JSON object: index[path] = entry keeps the place of a
\* path that is there and appends a new one; del index[path] removes it.
IndexEntry(path, state, oid) == [path |-> path, state |-> state, oid |-> oid]
IndexPaths(entries) == {entries[i].path : i \in DOMAIN entries}
set_entry(entries, path, oid) ==
    IF path \in IndexPaths(entries)
    THEN [i \in DOMAIN entries |->
            IF entries[i].path = path THEN IndexEntry(path, "clear", oid) ELSE entries[i]]
    ELSE Append(entries, IndexEntry(path, "clear", oid))
del_entry(entries, path) == SelectSeq(entries, LAMBDA e : e.path # path)

\* os.path.isfile, os.path.isdir and os.walk on the working directory
\* (path -> content, "": no such file).
isfile(wd, name) == wd[name] # ""
isdir(wd, name) == name = "a" /\ wd["a/b"] # ""
walk(wd, dirname) == IF isdir(wd, dirname) THEN <<"a/b">> ELSE <<>>

\* repository.add.add_file, for each file in turn
RECURSIVE add_files(_, _, _, _)
add_files(store, entries, wd, filenames) ==
    IF filenames = <<>> THEN [store |-> store, index |-> entries]
    ELSE LET h == hash_object(store, wd[Head(filenames)], "blob")
         IN add_files(h.store, set_entry(entries, Head(filenames), h.oid), wd,
                      Tail(filenames))

\* repository.add ([name]) over the nested paths
add_nested(store, entries, wd, name) ==
    IF isfile(wd, name) THEN add_files(store, entries, wd, <<name>>)
    ELSE IF isdir(wd, name) THEN add_files(store, entries, wd, walk(wd, name))
    ELSE [store |-> store, index |-> del_entry(entries, name)]

\* repository.read_tree (tree_oid): the index becomes the tree's paths, clear.
read_tree_nested(store, tree_oid) ==
    LET tree == get_tree(store, tree_oid, "")
        listed == SelectSeq(PathOrder, LAMBDA p : p \in DOMAIN tree)
    IN [i \in DOMAIN listed |-> IndexEntry(listed[i], "clear", tree[listed[i]])]

\* The mapping from each index path to its blob id.
IndexMapping(entries) ==
    [p \in IndexPaths(entries) |->
        (CHOOSE e \in Range(entries) : e.path = p).oid]

\* A working directory without files, as after init.
EmptyDirectory == [p \in StorePaths |-> ""]

InitStore ==
    /\ refs = InitState.refs
    /\ index = <<>>
    /\ working = EmptyDirectory
    /\ commits = InitState.commits
    /\ trees = InitState.trees
    /\ REBASE_STATE = NoRebase
    /\ start = NoStart
    /\ query = NoQuery
    /\ objects = NoObjects
    /\ proc = Idle
    /\ remote = NoRemote
    /\ files = NoFiles

\* One command on the index, the working directory and the object files.
StoreBecomes(store, entries, wd) ==
    /\ TotalWrites(store) <= MaxWrites
    /\ <<store, entries, wd>> # <<objects, index, working>>
    /\ objects' = store
    /\ index' = entries
    /\ working' = wd
    /\ UNCHANGED <<refs, commits, trees, REBASE_STATE, start, query, proc, remote, files>>

\* The user writes a file (making its directory) or removes one (with its
\* directory); a file and a directory cannot have the same name.
StoreWriteFile ==
    \E p \in StorePaths, c \in Contents :
        /\ p = "a" => working["a/b"] = ""
        /\ p = "a/b" => working["a"] = ""
        /\ StoreBecomes(objects, index, [working EXCEPT ![p] = c])

StoreRemoveFile ==
    \E p \in StorePaths :
        /\ working[p] # ""
        /\ StoreBecomes(objects, index, [working EXCEPT ![p] = ""])

\* cli.hash_object
cli_hash_object ==
    \E p \in StorePaths :
        /\ isfile(working, p)
        /\ StoreBecomes(hash_object(objects, working[p], "blob").store, index, working)

\* cli.add, one name
StoreAdd ==
    \E name \in StorePaths :
        LET r == add_nested(objects, index, working, name)
        IN /\ r.store # objects \/ r.index # index
           /\ StoreBecomes(r.store, r.index, working)

\* cli.write_tree
cli_write_tree ==
    LET r == write_tree_nested(objects, index)
    IN /\ r.res = "ok"
       /\ StoreBecomes(r.store, index, working)

\* cli.read_tree
cli_read_tree ==
    \E oid \in DOMAIN objects :
        /\ objects[oid].type = "tree"
        /\ StoreBecomes(objects, read_tree_nested(objects, oid), working)

NextStore ==
    \/ StoreWriteFile
    \/ StoreRemoveFile
    \/ cli_hash_object
    \/ StoreAdd
    \/ cli_write_tree
    \/ cli_read_tree

SpecStore == InitStore /\ [][NextStore]_vars

\* ---------------------------------------------------------------------- C28
\* C28: hash_object of content whose object is already in the store is a no-op:
\* the object file is not written again, and the id is the id of that object.
C28_RehashIsNoOp ==
    \A data \in Contents :
        LET r == hash_object(objects, data, "blob")
        IN sha1("blob", data) \in DOMAIN objects
            => r.store = objects /\ r.oid = sha1("blob", data)

\* ---------------------------------------------------------------------- C29
\* C29: for every conflict-free index reached through add and read_tree,
\* whatever its paths, write_tree succeeds and get_tree of the tree it wrote is
\* the mapping from each index path to its blob id.
C29_WriteTreeRoundTrip ==
    (\A i \in DOMAIN index : index[i].state = "clear") =>
        LET r == write_tree_nested(objects, index)
        IN /\ r.res = "ok"
           /\ get_tree(r.store, r.oid, "") = IndexMapping(index)

\* ---------------------------------------------------------------------- C30
\* cli.write_tree: repository.write_tree builds the tree of the index and
\* stores it; nothing in it looks at the state of the entries.
write_tree_command(s) ==
    Res([s EXCEPT !.trees = @ \cup {write_tree(s.index)}], "ok")

\* C30: on an index that holds a conflicted entry, write_tree reports the
\* cannot-write-tree-while-conflicts-exist error and stores no tree object,
\* also when it is called by the write-tree command.
C30_NoTreeWhileConflicts ==
    has_conflicts(index) =>
        LET r == write_tree_command(S)
        IN r.res = "conflict" /\ r.s.trees = trees

\* ---------------------------------------------------------------------- C40
\* C40: get_merge_base is symmetric: on every commit graph, for all commits a
\* and b, get_merge_base (a, b) is get_merge_base (b, a).
C40_MergeBaseSymmetric ==
    \A a, b \in CommitIds :
        /\ get_merge_base(commits, a, b) = get_merge_base(commits, b, a)
        /\ (query.fn = "get_merge_base" /\ query.a = a /\ query.b = b)
            => query.out = get_merge_base(commits, b, a)

\* ---------------------------------------------------------------------- C38
\* C38: in every reachable state in which MERGE_HEAD or CHERRY_PICK_HEAD is
\* present, ORIG_HEAD is present too, so that merge_abort and
\* cherry_pick_abort are not refused for a missing ORIG_HEAD.
C38_OrigHeadWhileInProgress ==
    /\ (get_ref(refs, "MERGE_HEAD", TRUE).oid # 0 \/ get_ref(refs, "CHERRY_PICK_HEAD", TRUE).oid # 0)
        => get_ref(refs, "ORIG_HEAD", TRUE).oid # 0
    /\ get_ref(refs, "MERGE_HEAD", TRUE).oid # 0 => merge_abort(S).res # "refused-no-orig"
    /\ get_ref(refs, "CHERRY_PICK_HEAD", TRUE).oid # 0 => cherry_pick_abort(S).res # "refused-no-orig"

\* --------------------------------------------------------------------- tags
\* The tag files, named as the branches are.
TagRefs == {"refs/tags/" \o b : b \in BranchNames}

\* repository.create_tag
create_tag(s, name, oid) ==
    [s EXCEPT !.refs = update_ref(s.refs, "refs/tags/" \o name, Direct(oid), TRUE)]

\* A base commit and two commits on top of it; master is at the second; no tag.
InitTags ==
    \E t_3 \in [Paths -> 0..MaxBlob] :
        /\ commits = <<PlainCommit([p \in Paths |-> 1], <<>>, Me, Date(1, "+0000"), "m"),
                       PlainCommit([p \in Paths |-> MaxBlob], <<1>>, Me, Date(2, "+0000"), "m"),
                       PlainCommit(t_3, <<1>>, Me, Date(3, "+0000"), "m")>>
        /\ trees = {[p \in Paths |-> 1], [p \in Paths |-> MaxBlob], t_3}
        /\ refs = [n \in RefNames \cup TagRefs |->
                     IF n = "HEAD" THEN Symbolic("refs/heads/master")
                     ELSE IF n = "refs/heads/master" THEN Direct(2) ELSE NoRef]
        /\ index = [p \in Paths |-> Clear(MaxBlob)]
        /\ working = [p \in Paths |-> MaxBlob]
        /\ REBASE_STATE = NoRebase
        /\ start = NoStart
        /\ query = NoQuery
        /\ objects = NoObjects
        /\ proc = Idle
        /\ remote = NoRemote
        /\ files = NoFiles

\* cli.tag
cli_tag ==
    \E b \in BranchNames, oid \in CommitIds :
        Becomes(create_tag(S, b, oid), "tag", "ok")

NextTags ==
    \/ WriteFile
    \/ cli_add
    \/ cli_tag
    \/ cli_branch
    \/ cli_checkout

SpecTags == InitTags /\ [][NextTags]_vars

\* ---------------------------------------------------------------------- C39
\* C39: after every successful checkout (name), whatever tags and branches
\* exist, the index is the tree of the commit that HEAD resolves to afterwards.
C39_IndexIsHeadTreeAfterCheckout ==
    \A name \in CheckoutNames :
        LET r == checkout(S, name)
        IN r.res = "checked-out" =>
            r.s.index = [p \in Paths |->
                            LET t == TreeOf(r.s.commits, HeadOid(r.s.refs))
                            IN IF t[p] # 0 THEN Clear(t[p]) ELSE NoEntry]

\* ---------------------------------------------------------------------- C35
\* The first parent of a commit (0: a root).
FirstParentOf(c) == IF commits[c].parents = <<>> THEN 0 ELSE commits[c].parents[1]

\* The youngest common ancestor of two commits of a history without merge
\* commits (0: none); a parent is older than its child.
YoungestCommonAncestor(a, b) ==
    LET common == AncestorsOrSelf(a) \cap AncestorsOrSelf(b)
    IN IF common = {} THEN 0 ELSE CHOOSE m \in common : \A x \in common : x <= m

\* list is the first-parent chain from head back to, but excluding, base,
\* oldest first.
IsFirstParentChain(list, head, base) ==
    /\ list # <<>>
    /\ list[Len(list)] = head
    /\ FirstParentOf(list[1]) = base
    /\ \A i \in 1..(Len(list) - 1) : FirstParentOf(list[i + 1]) = list[i]
    /\ \A i \in DOMAIN list : list[i] # base

\* The commits a command has added replay, in order, commits at the positions
\* from + 1 .. to of the list, each position at most once; the first has parent
\* onto, each other one the one before.
ReplaysPositions(s, list, from, to, onto) ==
    /\ SubSeq(s.commits, 1, Len(commits)) = commits
    /\ \E f \in [NewCommits(s) -> (from + 1)..to] :
        /\ \A m, n \in NewCommits(s) : m < n => f[m] < f[n]
        /\ \A n \in NewCommits(s) :
            Replays(s.commits, n, list[f[n]],
                    IF n = Len(commits) + 1 THEN onto ELSE n - 1)

\* The positions a command has dealt with end where it stopped, or with the list.
StoppedAt(s, list) == IF s.rebase.present THEN s.rebase.current_index ELSE Len(list)

Resumed(s, op, res) ==
    /\ s # S
    /\ refs' = s.refs
    /\ index' = s.index
    /\ working' = s.working
    /\ commits' = s.commits
    /\ trees' = s.trees
    /\ REBASE_STATE' = s.rebase
    /\ start' = StartOf(op, res, s)
    /\ UNCHANGED <<query, objects, proc, remote, files>>

\* rebase, once, on the history of InitRebase
LiveRebaseStart ==
    /\ Len(commits) = 4
    /\ \E upstream \in CommitIds :
        \E d3s \in [ReplayPositions(upstream) -> Oracle] :
            LET r == rebase(S, upstream, d3s) IN Resumed(r.s, "rebase", r.res)

\* rebase --continue
LiveRebaseContinue ==
    \E d3s \in [(REBASE_STATE.current_index + 2)..Len(REBASE_STATE.commits) -> Oracle] :
        LET r == rebase_continue(S, d3s) IN Resumed(r.s, "rebase_continue", r.res)

NextRebaseLive ==
    \/ WriteFile
    \/ RemoveFile
    \/ cli_add
    \/ LiveRebaseStart
    \/ LiveRebaseContinue

\* rebase --continue would be accepted and would change the repository: the
\* condition under which LiveRebaseContinue is enabled.
CanContinue ==
    \E d3s \in [(REBASE_STATE.current_index + 2)..Len(REBASE_STATE.commits) -> Oracle] :
        rebase_continue(S, d3s).s # S

\* The user who has a stopped rebase goes on adding the resolved files and
\* continuing: weak fairness of add and of rebase --continue, the latter with
\* its enabling condition written out.
SpecRebaseLive ==
    /\ InitRebase
    /\ [][NextRebaseLive]_vars
    /\ WF_vars(cli_add)
    /\ ([]<>~CanContinue \/ []<><<LiveRebaseContinue>>_vars)

\* ---------------------------------------------------------------------- C36
\* Between commands a REBASE_STATE names a position of its list.
ValidRebaseState ==
    REBASE_STATE.present =>
        /\ REBASE_STATE.current_index \in 0..(Len(REBASE_STATE.commits) - 1)
        /\ REBASE_STATE.commits[REBASE_STATE.current_index + 1] \in CommitIds

\* rebase_continue on a conflict-free index deletes the state or leaves a larger
\* current_index.
ContinueAdvances ==
    \A d3s \in [(REBASE_STATE.current_index + 2)..Len(REBASE_STATE.commits) -> Oracle] :
        LET r == rebase_continue(S, d3s)
        IN (REBASE_STATE.present /\ ~has_conflicts(index)) =>
            \/ ~r.s.rebase.present
            \/ /\ r.s.rebase.current_index > REBASE_STATE.current_index
               /\ r.s.rebase.current_index < Len(r.s.rebase.commits)
               /\ r.s.rebase.commits = REBASE_STATE.commits

\* C36: whenever REBASE_STATE is present between commands, current_index is a
\* position of commits; every rebase_continue on a conflict-free index
\* increases current_index by at least one or ends the rebase; and when the user
\* keeps resolving and continuing, a stopped rebase eventually reaches the
\* state where REBASE_STATE is deleted.
C36_RebaseResumesAndTerminates ==
    /\ [](ValidRebaseState /\ ContinueAdvances)
    /\ (REBASE_STATE.present ~> ~REBASE_STATE.present)

\* A rebase of two commits is stopped on its second commit, which conflicts.
C36_Witness ==
    /\ REBASE_STATE.present
    /\ REBASE_STATE.current_index = 1
    /\ Len(REBASE_STATE.commits) = 2
    /\ has_conflicts(index)

\* ------------------------------------------------- commit, one step at a time
\* A step of the running command becomes the next state; p is the position and
\* the locals of the command after the step.  A state between two steps is the
\* state an interruption at that point leaves behind.
Steps(s, p) ==
    /\ refs' = s.refs
    /\ index' = s.index
    /\ working' = s.working
    /\ commits' = s.commits
    /\ trees' = s.trees
    /\ REBASE_STATE' = s.rebase
    /\ start' = StartOf("commit", "step", s)
    /\ proc' = p
    /\ UNCHANGED <<query, objects, remote, files>>

\* commit, lines 158-177: the conflict check, then write_tree stores the tree.
\* pending and orig record MERGE_HEAD and ORIG_HEAD as they are when the command
\* starts.
CommitTree ==
    /\ proc.cmd = ""
    /\ Len(commits) <= MaxCommits
    /\ ~commit_refused(index)
    /\ Steps([S EXCEPT !.trees = @ \cup {write_tree(index)}],
             [cmd |-> "commit", at |-> "parents", tree |-> write_tree(index),
              parents |-> <<>>, oid |-> 0,
              pending |-> get_ref(refs, "MERGE_HEAD", TRUE).oid,
              orig |-> get_ref(refs, "ORIG_HEAD", TRUE).oid])

\* commit, lines 178-186: the parent lines; a MERGE_HEAD is deleted as soon as
\* its line is written.
CommitMergeHead ==
    /\ proc.cmd = "commit" /\ proc.at = "parents"
    /\ LET HEAD == HeadOid(refs)
           MERGE_HEAD == get_ref(refs, "MERGE_HEAD", TRUE).oid
       IN Steps([S EXCEPT !.refs = IF MERGE_HEAD # 0
                                      THEN delete_ref(refs, "MERGE_HEAD", FALSE) ELSE refs],
                [proc EXCEPT !.at = "orig", !.parents = commit_parents(HEAD, MERGE_HEAD)])

\* commit, lines 188-190: ORIG_HEAD is deleted.
CommitOrigHead ==
    /\ proc.cmd = "commit" /\ proc.at = "orig"
    /\ Steps([S EXCEPT !.refs = IF get_ref(refs, "ORIG_HEAD", TRUE).oid # 0
                                  THEN delete_ref(refs, "ORIG_HEAD", FALSE) ELSE refs],
             [proc EXCEPT !.at = "object"])

\* commit, lines 192-198: hash_object stores the commit object.
CommitObject ==
    /\ proc.cmd = "commit" /\ proc.at = "object"
    /\ LET now == format_timestamp(commits)
           me == parse_author_line(get_user_identity.name, get_user_identity.email,
                                   now.timestamp, now.timezone)
       IN Steps([S EXCEPT !.commits = Append(@, Commit(proc.tree, proc.parents, me, me, "m"))],
                [proc EXCEPT !.at = "update", !.oid = Len(commits) + 1])

\* commit, line 200: HEAD, or the branch it names, is set to the new commit.
CommitHead ==
    /\ proc.cmd = "commit" /\ proc.at = "update"
    /\ Steps([S EXCEPT !.refs = update_ref(refs, "HEAD", Direct(proc.oid), TRUE)], Idle)

\* Between two commits the user edits, adds and merges.
BetweenCommits ==
    /\ proc.cmd = ""
    /\ (WriteFile \/ cli_add \/ cli_merge)

NextCommit ==
    \/ BetweenCommits
    \/ CommitTree
    \/ CommitMergeHead
    \/ CommitOrigHead
    \/ CommitObject
    \/ CommitHead

SpecCommit == InitDiverged /\ [][NextCommit]_vars

\* ---------------------------------------------------------------------- C34
\* C34: until a commit command has updated HEAD it has not deleted MERGE_HEAD or
\* ORIG_HEAD; in every state between two of its steps every ref names a commit
\* of the store whose tree is in the store, and a merge parent that was pending
\* is not lost: MERGE_HEAD is still present, or HEAD resolves to a commit that
\* has it as a parent.
C34_CommitStepsInOrder ==
    proc.cmd = "commit" =>
        /\ get_ref(refs, "MERGE_HEAD", TRUE).oid = proc.pending
        /\ get_ref(refs, "ORIG_HEAD", TRUE).oid = proc.orig
        /\ \A ref \in DOMAIN refs : get_ref(refs, ref, TRUE).oid \in 0..Len(commits)
        /\ \A c \in CommitIds : commits[c].tree \in trees
        /\ proc.pending # 0 =>
            \/ get_ref(refs, "MERGE_HEAD", TRUE).oid = proc.pending
            \/ /\ HeadOid(refs) # 0
               /\ proc.pending \in Range(commits[HeadOid(refs)].parents)

\* ----------------------------------------- one writer and one reader of a file
\* The bytes of a text reach its file in pieces.
MaxPieces == 2

\* The bytes of a text, in the order in which they are written.
Bytes(text) == [i \in 1..MaxPieces |-> [piece |-> i, of |-> text]]

\* zlib.compress (obj) of an object of the given type and content.
compress(type_, data) == Bytes(sha1(type_, data))

\* The file of an object and the two ref files that are written and read.
ObjectFile(oid) == "objects/" \o oid
RefFiles == {"refs/heads/master", "refs/tags/v1"}

\* The object ids a ref is set to.
RefTexts == {sha1("blob", data) : data \in Contents}

\* What the file system shows of a path: whether the file is there, and its
\* bytes so far.
Seen(fs, path) ==
    IF path \in DOMAIN fs THEN [isfile |-> TRUE, bytes |-> fs[path]]
    ELSE [isfile |-> FALSE, bytes |-> <<>>]

\* open (path, 'w') or open (path, 'wb'): the file is created, or cut to length
\* zero if it is there.
open_w(fs, path) == Put(fs, path, <<>>)

\* A write of the buffered bytes: some of the bytes that are still missing are
\* added to the file; the last write is followed by the close.
Write(k) ==
    /\ k \in 1..(MaxPieces - Len(files[proc.path]))
    /\ files' = [files EXCEPT ![proc.path] =
                    SubSeq(proc.bytes, 1, Len(files[proc.path]) + k)]
    /\ proc' = IF Len(files[proc.path]) + k = MaxPieces THEN Idle ELSE proc

\* The reader's call with what it saw; old and new are the file before and
\* after the write that is going on, if one is.
Observed(fn, path, out) ==
    [fn |-> fn, path |-> path, out |-> out, seen |-> Seen(files, path),
     old |-> IF proc.cmd # "" /\ proc.path = path THEN proc.old ELSE Seen(files, path),
     new |-> IF proc.cmd # "" /\ proc.path = path
                THEN [isfile |-> TRUE, bytes |-> proc.bytes] ELSE Seen(files, path)]

FilesBecome ==
    UNCHANGED <<refs, index, working, commits, trees, REBASE_STATE, start, objects, remote>>

\* objects.hash_object up to the open: the file of the object is opened for
\* writing whether or not it is there.
HashObjectOpen ==
    \E data \in Contents :
        LET path == ObjectFile(sha1("blob", data)) IN
        /\ proc.cmd = ""
        /\ proc' = [cmd |-> "hash_object", at |-> "write", path |-> path,
                    bytes |-> compress("blob", data), old |-> Seen(files, path)]
        /\ files' = open_w(files, path)
        /\ UNCHANGED query
        /\ FilesBecome

\* objects.hash_object: out.write and the end of the with block.
HashObjectWrite ==
    /\ proc.cmd = "hash_object"
    /\ \E k \in 1..MaxPieces : Write(k)
    /\ UNCHANGED query
    /\ FilesBecome

\* objects.update_ref up to the open, for a ref that holds an object id.
UpdateRefOpen ==
    \E ref \in RefFiles, value \in RefTexts :
        /\ proc.cmd = ""
        /\ proc' = [cmd |-> "update_ref", at |-> "write", path |-> ref,
                    bytes |-> Bytes(value), old |-> Seen(files, ref)]
        /\ files' = open_w(files, ref)
        /\ UNCHANGED query
        /\ FilesBecome

\* objects.update_ref: f.write and the end of the with block.
UpdateRefWrite ==
    /\ proc.cmd = "update_ref"
    /\ \E k \in 1..MaxPieces : Write(k)
    /\ UNCHANGED query
    /\ FilesBecome

\* objects.object_exists in the other process.
ReaderObjectExists ==
    \E data \in Contents :
        LET path == ObjectFile(sha1("blob", data)) IN
        /\ query' = Observed("object_exists", path,
                             [raised |-> "", value |-> Seen(files, path)])
        /\ UNCHANGED <<proc, files>>
        /\ FilesBecome

\* objects.get_object in the other process: the open fails if the file is not
\* there, zlib.decompress fails on bytes that are not a whole stream.
zlib_decompress(bytes) ==
    IF Len(bytes) = MaxPieces THEN [raised |-> "", value |-> bytes[1].of]
    ELSE [raised |-> "zlib.error", value |-> ""]

ReaderGetObject ==
    \E data \in Contents :
        LET path == ObjectFile(sha1("blob", data))
            out == IF path \in DOMAIN files
                      THEN zlib_decompress(files[path])
                      ELSE [raised |-> "FileNotFoundError", value |-> ""]
        IN
        /\ query' = Observed("get_object", path, out)
        /\ UNCHANGED <<proc, files>>
        /\ FilesBecome

\* objects._get_ref_internal on a ref file that holds an object id: value is
\* None without the file and the text read otherwise, which is '' for a file
\* without bytes.
get_ref_file(fs, ref) ==
    [symbolic |-> FALSE,
     none |-> ref \notin DOMAIN fs,
     value |-> IF ref \in DOMAIN fs THEN fs[ref] ELSE <<>>]

\* bool (value) of a RefValue: neither None nor ''.
HasText(refvalue) == ~refvalue.none /\ refvalue.value # <<>>

\* objects.get_ref in the other process.
ReaderGetRef ==
    \E ref \in RefFiles :
        /\ query' = Observed("get_ref", ref, get_ref_file(files, ref))
        /\ UNCHANGED <<proc, files>>
        /\ FilesBecome

\* Both refs exist; no object is stored.
InitFiles ==
    /\ refs = InitState.refs
    /\ index = InitState.index
    /\ working = InitState.working
    /\ commits = InitState.commits
    /\ trees = InitState.trees
    /\ REBASE_STATE = InitState.rebase
    /\ start = NoStart
    /\ query = NoQuery
    /\ objects = NoObjects
    /\ proc = Idle
    /\ remote = NoRemote
    /\ files \in [RefFiles -> {Bytes(value) : value \in RefTexts}]

NextFiles ==
    \/ HashObjectOpen
    \/ HashObjectWrite
    \/ UpdateRefOpen
    \/ UpdateRefWrite
    \/ ReaderObjectExists
    \/ ReaderGetObject
    \/ ReaderGetRef

SpecFiles == InitFiles /\ [][NextFiles]_vars

\* ---------------------------------------------------------------------- C32
\* C32: a reader that finds the file of an object while hash_object is writing
\* it finds the whole object: object_exists is true only of a file that holds
\* all bytes of the object, and get_object of a file that is there returns the
\* content of the object.
C32_ReaderSeesWholeObject ==
    /\ query.fn = "object_exists" /\ query.out.value.isfile =>
            \E data \in Contents : query.seen.bytes = compress("blob", data)
    /\ query.fn = "get_object" /\ query.seen.isfile =>
            /\ query.out.raised = ""
            /\ \E data \in Contents : query.out.value = sha1("blob", data)

\* ---------------------------------------------------------------------- C33
\* C33: get_ref of a ref that update_ref is writing returns the whole old value
\* or the whole new value, never an empty or a partial text; a ref that exists
\* before and after is not read as absent.
C33_ReaderSeesOldOrNewRef ==
    query.fn = "get_ref" =>
        /\ query.out \in {[symbolic |-> FALSE, none |-> ~v.isfile, value |-> v.bytes] :
                            v \in {query.old, query.new}}
        /\ query.old.isfile => HasText(query.out)

\* ------------------------------------------------ two repositories: the objects
\* The objects that exist, in either repository; an object file holds the object
\* its id names.  Commits 1..3 (2 and 3 both follow 1), the trees 4, 5 (which
\* holds tree 6) and 6, the blobs 7 and 8.
StoredCommit(tree, parents) ==
    [type |-> "commit", tree |-> tree, parents |-> parents, entries |-> <<>>]
StoredTree(entries) == [type |-> "tree", tree |-> 0, parents |-> <<>>, entries |-> entries]
StoredBlob == [type |-> "blob", tree |-> 0, parents |-> <<>>, entries |-> <<>>]
TreeEntry(type_, oid) == [type |-> type_, oid |-> oid]

Universe ==
    <<StoredCommit(4, <<>>), StoredCommit(5, <<1>>), StoredCommit(4, <<1>>),
      StoredTree(<<TreeEntry("blob", 7)>>),
      StoredTree(<<TreeEntry("blob", 7), TreeEntry("tree", 6)>>),
      StoredTree(<<TreeEntry("blob", 8)>>),
      StoredBlob, StoredBlob>>

UniverseCommits == {o \in DOMAIN Universe : Universe[o].type = "commit"}

\* The objects an object names directly.
Children(o) ==
    (IF Universe[o].tree # 0 THEN {Universe[o].tree} ELSE {})
        \cup Range(Universe[o].parents)
        \cup {Universe[o].entries[i].oid : i \in DOMAIN Universe[o].entries}

\* The objects reachable from a set of objects, these included.
RECURSIVE Reachable(_)
Reachable(oids) ==
    LET more == oids \cup UNION {Children(o) : o \in oids}
    IN IF more = oids THEN oids ELSE Reachable(more)

\* The store that holds just the given objects.
StoreOf(oids) == [o \in oids |-> Universe[o]]

\* What a generator does, as its caller and the store see it: it yields an id,
\* or it reads the object of an id from the local store.
Yield(oid) == [ev |-> "yield", oid |-> oid]
ReadObject(oid) == [ev |-> "read", oid |-> oid]

RECURSIVE iter_objects_in_tree_reads_first(_, _)
RECURSIVE iter_objects_in_tree(_, _)
RECURSIVE tree_entries_loop(_, _, _)

\* An iter_objects_in_tree that opens the tree before it has yielded its id.
iter_objects_in_tree_reads_first(oid, visited) ==
    tree_entries_loop(Universe[oid].entries, visited \cup {oid},
                      <<ReadObject(oid), Yield(oid)>>)

\* iter_objects_in_tree of repository.iter_objects_in_commits: what it does, and
\* the ids marked visited when it ends.  The id is yielded, then
\* _iter_tree_entries reads the tree.
iter_objects_in_tree(oid, visited) ==
    tree_entries_loop(Universe[oid].entries, visited \cup {oid},
                      <<Yield(oid), ReadObject(oid)>>)

\* The for loop of iter_objects_in_tree; the id of a blob is yielded, a blob is
\* never read.
tree_entries_loop(entries, visited, events) ==
    IF entries = <<>> THEN [events |-> events, visited |-> visited]
    ELSE
        LET e == Head(entries) IN
        IF e.oid \in visited THEN tree_entries_loop(Tail(entries), visited, events)
        ELSE IF e.type = "tree"
            THEN LET r == iter_objects_in_tree(e.oid, visited)
                 IN tree_entries_loop(Tail(entries), r.visited, events \o r.events)
            ELSE tree_entries_loop(Tail(entries), visited \cup {e.oid},
                                   Append(events, Yield(e.oid)))

\* repository.iter_objects_in_commits over iter_commits_and_parents: the id of a
\* commit is yielded, then the commit is read for its tree, and it is read again
\* for its parents when the inner generator goes on.
RECURSIVE iter_objects_in_commits(_, _, _)
iter_objects_in_commits(oids, seen, visited) ==
    IF oids = <<>> THEN <<>>
    ELSE
        LET oid == Head(oids) IN
        IF oid = 0 \/ oid \in seen THEN iter_objects_in_commits(Tail(oids), seen, visited)
        ELSE
            LET c == Universe[oid]
                t == IF c.tree \in visited
                        THEN [events |-> <<>>, visited |-> visited]
                        ELSE iter_objects_in_tree(c.tree, visited)
            IN <<Yield(oid), ReadObject(oid)>> \o t.events \o <<ReadObject(oid)>>
                \o iter_objects_in_commits(
                        FirstParent(c.parents) \o Tail(oids)
                            \o OtherParents(c.parents),
                        seen \cup {oid}, t.visited)

\* set (generator) run against a store: the ids yielded, or the failure of the
\* first read of an object the store does not hold.
RECURSIVE collect(_, _, _)
collect(events, store, oids) ==
    IF events = <<>> THEN [raised |-> "", oids |-> oids]
    ELSE IF Head(events).ev = "yield"
        THEN collect(Tail(events), store, oids \cup {Head(events).oid})
    ELSE IF Head(events).oid \in DOMAIN store
        THEN collect(Tail(events), store, oids)
    ELSE [raised |-> "FileNotFoundError", oids |-> oids]

\* objects.object_exists
object_exists(store, oid) == oid \in DOMAIN store

\* objects.fetch_object_if_missing; the copy is possible if the remote holds the
\* object.
fetch_object_if_missing(store, oid, remote_store) ==
    IF object_exists(store, oid) THEN store ELSE Put(store, oid, remote_store[oid])

\* objects.push_object
push_object(store, oid, remote_store) == Put(remote_store, oid, store[oid])

\* objects.iter_refs in a repository, all refs followed to their object id: the
\* names with the given prefix that have a value.
SyncPrefixes == {"", "refs/heads/"}
HasPrefix(name, prefix) ==
    \/ prefix = ""
    \/ prefix = "refs/heads/" /\ name \in {"refs/heads/master", "refs/heads/dev"}

\* remotes._get_remote_refs
get_remote_refs(remote_refs, prefix) ==
    LET names == {n \in DOMAIN remote_refs :
                    HasPrefix(n, prefix) /\ get_ref(remote_refs, n, TRUE).oid # 0}
    IN [n \in names |-> get_ref(remote_refs, n, TRUE).oid]

\* os.path.relpath (remote_name, 'refs/heads/') under refs/remote
LocalName(remote_name) ==
    IF remote_name = "refs/heads/master" THEN "refs/remote/master" ELSE "refs/remote/dev"

\* The orders in which the values of a dict or the members of a set come.
Orders(set) ==
    {seq \in UNION {[1..n -> set] : n \in {Cardinality(set)}} :
        \A i, j \in DOMAIN seq : i # j => seq[i] # seq[j]}

\* ------------------------------------------ two repositories: fetch and push
\* The refs of the local and of the other repository; HEAD names master in both.
LocalRefNames ==
    {"HEAD", "refs/heads/master", "refs/heads/dev", "refs/remote/master", "refs/remote/dev"}
RemoteRefNames == {"HEAD", "refs/heads/master", "refs/heads/dev"}
PushNames == {"refs/heads/master", "refs/heads/dev"}

RefTo(oid) == IF oid = 0 THEN NoRef ELSE Direct(oid)

\* The command has ended: returned ("done"), refused with ValueError
\* ("rejected"), failed on a missing file ("raised") or was killed ("killed").
Ended(p, how) == [p EXCEPT !.cmd = "", !.at = how]

SyncBecomes ==
    UNCHANGED <<index, working, commits, trees, REBASE_STATE, start, query, files>>

\* remotes.fetch, line 11: the branches of the remote are read; the values of
\* the dict start the generator.
FetchStart ==
    LET found == get_remote_refs(remote.refs, "refs/heads/") IN
    \E order \in Orders(DOMAIN found) :
        /\ proc.cmd = ""
        /\ proc' = [cmd |-> "fetch", was |-> "fetch", at |-> "objects",
                    found |-> found,
                    events |-> iter_objects_in_commits(
                                    [i \in DOMAIN order |-> found[order[i]]], {}, {}),
                    todo |-> DOMAIN found]
        /\ UNCHANGED <<refs, objects, remote>>
        /\ SyncBecomes

\* remotes.fetch, lines 14-15: the generator runs up to its next yield or read.
\* An id that is yielded is copied if it is missing; a read needs the object in
\* the local store.
FetchObject ==
    /\ proc.cmd = "fetch" /\ proc.events # <<>>
    /\ LET e == Head(proc.events) IN
       IF e.ev = "yield"
       THEN IF ~object_exists(objects, e.oid) /\ ~object_exists(remote.objects, e.oid)
            THEN /\ proc' = Ended(proc, "raised")
                 /\ UNCHANGED objects
            ELSE /\ objects' = fetch_object_if_missing(objects, e.oid, remote.objects)
                 /\ proc' = [proc EXCEPT !.events = Tail(@)]
       ELSE IF object_exists(objects, e.oid)
            THEN /\ proc' = [proc EXCEPT !.events = Tail(@)]
                 /\ UNCHANGED objects
            ELSE /\ proc' = Ended(proc, "read-missing")
                 /\ UNCHANGED objects
    /\ UNCHANGED <<refs, remote>>
    /\ SyncBecomes

\* remotes.fetch, lines 18-21: one refs/remote/<name> is written.
FetchRef ==
    /\ proc.cmd = "fetch" /\ proc.events = <<>>
    /\ \E name \in proc.todo :
        /\ refs' = update_ref(refs, LocalName(name), Direct(proc.found[name]), TRUE)
        /\ proc' = [proc EXCEPT !.at = "refs", !.todo = @ \ {name}]
    /\ UNCHANGED <<objects, remote>>
    /\ SyncBecomes

\* remotes.fetch returns.
FetchDone ==
    /\ proc.cmd = "fetch" /\ proc.events = <<>> /\ proc.todo = {}
    /\ proc' = Ended(proc, "done")
    /\ UNCHANGED <<refs, objects, remote>>
    /\ SyncBecomes

\* A push that refuses nothing.
push_never_rejected(remote_ref, local_ref) == FALSE

\* remotes.push, line 41: the push of a local value over a remote one is refused.
push_rejected(remote_ref, local_ref) ==
    remote_ref # 0 /\ ~is_ancestor_of(Universe, local_ref, remote_ref)

\* remotes.push, lines 33-48: the checks, then the objects to push are computed
\* in the local store.
PushStart ==
    \E refname \in PushNames :
        LET remote_refs == get_remote_refs(remote.refs, "")
            remote_ref == IF refname \in DOMAIN remote_refs THEN remote_refs[refname] ELSE 0
            local_ref == get_ref(refs, refname, TRUE).oid
            known_remote_refs == {remote_refs[n] : n \in DOMAIN remote_refs}
                                    \cap DOMAIN objects
            p == [cmd |-> "push", was |-> "push", at |-> "objects", refname |-> refname,
                  local_ref |-> local_ref, remote_ref |-> remote_ref, todo |-> {},
                  before |-> remote]
        IN
        /\ proc.cmd = ""
        /\ IF local_ref = 0 \/ push_rejected(remote_ref, local_ref)
           THEN proc' = Ended(p, "rejected")
           ELSE \E order \in Orders(known_remote_refs) :
                LET remote_objects == collect(iter_objects_in_commits(order, {}, {}),
                                              objects, {})
                    local_objects == collect(iter_objects_in_commits(<<local_ref>>, {}, {}),
                                             objects, {})
                IN IF remote_objects.raised # "" \/ local_objects.raised # ""
                   THEN proc' = Ended(p, "raised")
                   ELSE proc' = [p EXCEPT !.todo = local_objects.oids \ remote_objects.oids]
        /\ UNCHANGED <<refs, objects, remote>>
        /\ SyncBecomes

\* remotes.push, lines 50-51: one object is copied to the remote.
PushObject ==
    /\ proc.cmd = "push"
    /\ \E oid \in proc.todo :
        IF object_exists(objects, oid)
        THEN /\ remote' = [remote EXCEPT !.objects = push_object(objects, oid, @)]
             /\ proc' = [proc EXCEPT !.todo = @ \ {oid}]
        ELSE /\ proc' = Ended(proc, "raised")
             /\ UNCHANGED remote
    /\ UNCHANGED <<refs, objects>>
    /\ SyncBecomes

\* remotes.push, lines 54-56: the ref of the remote is set, and push returns.
PushRef ==
    /\ proc.cmd = "push" /\ proc.todo = {}
    /\ remote' = [remote EXCEPT !.refs =
                    update_ref(@, proc.refname, Direct(proc.local_ref), TRUE)]
    /\ proc' = Ended(proc, "done")
    /\ UNCHANGED <<refs, objects>>
    /\ SyncBecomes

\* The fetch or the push that is running is killed.
Interrupt ==
    /\ proc.cmd \in {"fetch", "push"}
    /\ proc' = Ended(proc, "killed")
    /\ UNCHANGED <<refs, objects, remote>>
    /\ SyncBecomes

\* A merge of a fetched branch that is a fast-forward: the current branch is set
\* to the fetched commit.
FastForward ==
    /\ proc.cmd = ""
    /\ \E name \in {"refs/remote/master", "refs/remote/dev"} :
        LET other == get_ref(refs, name, TRUE).oid
            HEAD == get_ref(refs, "HEAD", TRUE).oid
        IN
        /\ other # 0
        /\ HEAD # other
        /\ is_ancestor_of(Universe, other, HEAD)
        /\ refs' = update_ref(refs, "HEAD", Direct(other), TRUE)
    /\ UNCHANGED <<objects, remote, proc>>
    /\ SyncBecomes

\* Each repository holds the objects its branches reach and no others.
InitSync ==
    \E master, their_master, their_dev \in {0} \cup UniverseCommits :
        /\ refs = [n \in LocalRefNames |->
                    IF n = "HEAD" THEN Symbolic("refs/heads/master")
                    ELSE IF n = "refs/heads/master" THEN RefTo(master) ELSE NoRef]
        /\ objects = StoreOf(Reachable({master} \ {0}))
        /\ remote = [refs |-> [n \in RemoteRefNames |->
                                IF n = "HEAD" THEN Symbolic("refs/heads/master")
                                ELSE IF n = "refs/heads/master" THEN RefTo(their_master)
                                ELSE RefTo(their_dev)],
                     objects |-> StoreOf(Reachable({their_master, their_dev} \ {0}))]
        /\ index = InitState.index
        /\ working = InitState.working
        /\ commits = InitState.commits
        /\ trees = InitState.trees
        /\ REBASE_STATE = InitState.rebase
        /\ start = NoStart
        /\ query = NoQuery
        /\ proc = Idle
        /\ files = NoFiles

NextSync ==
    \/ FetchStart
    \/ FetchObject
    \/ FetchRef
    \/ FetchDone
    \/ PushStart
    \/ PushObject
    \/ PushRef
    \/ Interrupt
    \/ FastForward

SpecSync == InitSync /\ [][NextSync]_vars

\* The store holds every object reachable from the given ids (0: no id).
HoldsAll(store, oids) == Reachable(oids \ {0}) \subseteq DOMAIN store

\* ---------------------------------------------------------------------- C31
\* C31: a push of a ref whose value on the remote is neither absent nor an
\* ancestor of the local value is rejected; a rejected push leaves the refs and
\* the objects of the remote as they were; while an accepted push copies objects
\* the refs of the remote are as they were, and once it has set the ref, to the
\* local value, the remote holds every object reachable from that value.
C31_PushRejectedOrComplete ==
    /\ (proc.at # "" /\ proc.was = "push") =>
        LET allowed == \/ proc.remote_ref = 0
                       \/ proc.remote_ref \in Reachable({proc.local_ref} \ {0})
        IN
        /\ ~allowed => proc.at = "rejected"
        /\ proc.at = "rejected" => remote = proc.before
        /\ proc.at \in {"objects", "raised", "killed"} => remote.refs = proc.before.refs
        /\ proc.at = "done" =>
            /\ remote.refs = [proc.before.refs EXCEPT ![proc.refname] = Direct(proc.local_ref)]
            /\ HoldsAll(remote.objects, {proc.local_ref})
    /\ \A n \in RemoteRefNames : HoldsAll(remote.objects, {get_ref(remote.refs, n, TRUE).oid})

\* A push over an older value of the remote has returned; it had to copy the
\* commit.
C31_Witness ==
    /\ proc.at = "done" /\ proc.was = "push"
    /\ proc.remote_ref # 0
    /\ proc.remote_ref # proc.local_ref
    /\ ~object_exists(proc.before.objects, proc.local_ref)
    /\ object_exists(remote.objects, proc.local_ref)

\* ---------------------------------------------------------------------- C37
\* C37: a fetch never reads an object the local store does not hold; it writes
\* refs/remote/<branch> only when the local store holds every object reachable
\* from the tips of the remote's branches; when it returns each
\* refs/remote/<branch> is the tip of the remote's branch; every
\* refs/remote/<branch> names a commit all of whose objects are local.
C37_FetchCopiesBeforeReading ==
    /\ (proc.at # "" /\ proc.was = "fetch") =>
        /\ proc.at # "read-missing"
        /\ proc.at \in {"refs", "done"} =>
                HoldsAll(objects, {proc.found[n] : n \in DOMAIN proc.found})
        /\ proc.at = "done" =>
                \A n \in PushNames :
                    LET tip == get_ref(remote.refs, n, TRUE).oid IN
                    tip # 0 => get_ref(refs, LocalName(n), TRUE).oid = tip
    /\ \A n \in {"refs/remote/master", "refs/remote/dev"} :
            HoldsAll(objects, {get_ref(refs, n, TRUE).oid})

\* A fetch has returned that had to copy commit 2, its tree and the tree and the
\* blob below it.
C37_Witness ==
    /\ proc.at = "done" /\ proc.was = "fetch"
    /\ get_ref(refs, "refs/heads/master", TRUE).oid \in {0, 1}
    /\ get_ref(refs, "refs/remote/master", TRUE).oid = 2
    /\ get_ref(refs, "refs/remote/dev", TRUE).oid = 0
    /\ {2, 5, 6, 8} \subseteq DOMAIN objects

====
